---- MODULE Spec2Model ----
(***************************************************************************)
(* Action-execution pipeline of BIMTwinOps: the confirmation policy of the *)
(* action agent, the pending-action store with its JSON persistence, the   *)
(* approval endpoints, the executor agent and the MCP connection pool.     *)
(***************************************************************************)
EXTENDS Integers, Sequences, FiniteSets, TLC

(* ------------------------------ bounds -------------------------------- *)
MaxIds == 2
MaxClock == 4
MaxTasks == 2
MaxThreads == 2
MaxQueryLen == 3
MaxExecutions == 2
MaxPoolSize == 2
MaxRetries == 1

(* ------------------------------ values -------------------------------- *)
Ids == 1..MaxIds
None == "null"
NoTime == 0
Statuses == {"pending", "approved", "rejected", "executed", "failed"}
Plans == {"delete_nodes", "update_properties"}
Reviewers == {None, "admin"}
Reasons == {None, "not needed"}
Results == {"records", "fallback_result_no_mcp"}
Errors == {"boom"}

VARIABLES
    items,        \* PendingActionStore._items: id -> PendingAction
    disk,         \* the persistence file: [kind, payload]
    diskOk,       \* whether a write_text on the file succeeds right now
    now,          \* the clock read by _now()
    nextId,       \* the next uuid4 handed out by PendingAction()
    last,         \* the last call: [op, id, arg, pre, outcome]
    lastSave,     \* how the most recent _save_to_disk ended: none, ok, OSError
    store2,       \* a second store constructed from the same file
    tasks,        \* the approval endpoints' requests in flight
    executorOk,   \* api._executor is not None
    hist,         \* per id: successful approvals / rejections, executor calls, marks
    audit,        \* AuditLogger.events, counted per action
    thr,          \* threads inside PendingActionStore.approve / reject
    lockOwner,    \* PendingActionStore._lock: 0 when free
    query,        \* the user input given to ActionAgent._plan_action
    plan,         \* the ActionPlan it returned
    proc,         \* the ActionAgent.process call: position, metadata, outcome
    agent,        \* ExecutorAgent: audit_logger, mcp_host, _get_mcp_host
    execution,    \* the ExecutorAgent.execute call in progress or just finished
    events,       \* the executor's AuditLogger.events
    executions,   \* how many execute calls have returned or raised
    pool,         \* MCPConnectionPool.connections: name -> MCPConnection
    callers,      \* the asyncio tasks inside MCPConnectionPool.call_tool
    hostLast,     \* the last step of the pool: [op, server, tool, task, outcome]
    order,        \* the insertion order of the connections dict
    health,       \* the MCPConnectionPool.health_check call in progress or finished
    mcp_host,     \* the global _mcp_host: whether it exists, and its _initialized
    getters,      \* the tasks that call get_mcp_host and then use the host
    instance,     \* get_pending_action_store._instance: 0 for None, else a store
    stores,       \* the PendingActionStore objects constructed so far: their _items
    users         \* the threads that call get_pending_action_store and use the store

storeVars == <<items, disk, diskOk, now, nextId, last, lastSave>>
apiVars == <<tasks, executorOk, hist, audit>>
thrVars == <<thr, lockOwner>>
polVars == <<query, plan, proc>>
execVars == <<agent, execution, events, executions>>
hostVars == <<pool, callers, hostLast>>
healthVars == <<order, health>>
initVars == <<mcp_host, getters>>
singletonVars == <<instance, stores, users>>
vars == <<storeVars, store2, apiVars, thrVars, polVars, execVars, hostVars, healthVars,
          initVars, singletonVars>>

(* --------------------------- PendingAction ---------------------------- *)
\* who asked for the action: the keyword arguments of create
NoAttribution == [user_id |-> None, session_id |-> None, thread_id |-> None]
Attribution == [user_id |-> "u1", session_id |-> "s1", thread_id |-> "t1"]

PendingAction(id, action_plan, t, by) ==
    [id |-> id, created_at |-> t, updated_at |-> t, status |-> "pending",
     action_plan |-> action_plan,
     user_id |-> by.user_id, session_id |-> by.session_id, thread_id |-> by.thread_id,
     approved_by |-> None, approved_at |-> NoTime,
     rejected_by |-> None, rejected_at |-> NoTime, rejection_reason |-> None,
     executed_at |-> NoTime, execution_result |-> None, execution_error |-> None]

EmptyTable == [i \in {} |-> PendingAction(0, None, NoTime, NoAttribution)]

(* ----------------------------- persistence ---------------------------- *)
\* model_dump(mode="json") of the table, in insertion order (ids are handed
\* out in increasing order, so insertion order is id order)
RECURSIVE DumpFrom(_, _)
DumpFrom(its, k) ==
    IF k > MaxIds + 1 THEN << >>
    ELSE IF k \in DOMAIN its THEN <<its[k]>> \o DumpFrom(its, k + 1)
    ELSE DumpFrom(its, k + 1)

DumpPendingOnly(its) ==
    DumpFrom([i \in {j \in DOMAIN its : its[j].status = "pending"} |-> its[i]], 1)

Dump(its) == DumpFrom(its, 1)

NoFile == [kind |-> "absent", payload |-> << >>]

save_to_disk(its, dsk, ok) ==
    IF ok THEN [kind |-> "list", payload |-> Dump(its)] ELSE dsk

\* what the file can hold when a store is constructed on it: nothing, only
\* whitespace, text that is not JSON, JSON that is neither a list nor an
\* object with an "items" list, a list whose entries are not PendingActions,
\* or a dumped table (bare, or under "items")
\* a record written by an earlier process, before this clock started
StoredRecord == PendingAction(1, "delete_nodes", NoTime, NoAttribution)
Files == {NoFile,
          [kind |-> "blank", payload |-> << >>],
          [kind |-> "unparsable", payload |-> << >>],
          [kind |-> "wrong_shape", payload |-> << >>],
          [kind |-> "bad_records", payload |-> << >>],
          [kind |-> "list", payload |-> <<StoredRecord>>],
          [kind |-> "items_object", payload |-> <<StoredRecord>>]}

\* the exception raised inside the try of _load_from_disk, if any
LoadError(dsk, readable) ==
    IF dsk.kind = "absent" THEN None
    ELSE IF ~readable THEN "OSError"
    ELSE IF dsk.kind = "unparsable" THEN "JSONDecodeError"
    ELSE IF dsk.kind = "bad_records" THEN "ValidationError"
    ELSE None

\* json.JSONDecodeError and pydantic's ValidationError derive from ValueError
BaseOf(e) == IF e \in {"JSONDecodeError", "ValidationError"} THEN "ValueError" ELSE e

CaughtByLoadOSErrorOnly == {"OSError"}

CaughtByLoad == {"OSError", "ValueError", "TypeError", "JSONDecodeError"}

Escapes(e) == e # None /\ e \notin CaughtByLoad /\ BaseOf(e) \notin CaughtByLoad

load_from_disk(dsk, readable) ==
    IF dsk.kind = "absent" THEN EmptyTable
    ELSE IF LoadError(dsk, readable) # None THEN EmptyTable
    ELSE IF dsk.kind \in {"list", "items_object"}
         THEN [i \in {dsk.payload[k].id : k \in 1..Len(dsk.payload)} |->
                  LET k == CHOOSE k \in 1..Len(dsk.payload) : dsk.payload[k].id = i
                  IN dsk.payload[k]]
         ELSE EmptyTable

(* --------------------------- store operations ------------------------- *)
Outcome(its, dsk, clk, out) == [items |-> its, disk |-> dsk, now |-> clk, outcome |-> out]

ApproveAllowedAlsoRejected(status) == status \in {"pending", "approved", "rejected"}

ApproveAllowedOnce(status) == status = "pending"

ApproveAllowed(status) == status \in {"pending", "approved"}

RejectAllowedAlsoApproved(status) == status \in {"pending", "rejected", "approved"}

RejectAllowed(status) == status \in {"pending", "rejected"}

MarkAllowed(status) == TRUE

create(its, dsk, clk, id, action_plan, by, ok) ==
    LET new == [i \in DOMAIN its \cup {id} |->
                   IF i = id THEN PendingAction(id, action_plan, clk, by) ELSE its[i]]
    IN Outcome(new, save_to_disk(new, dsk, ok), clk + 1, "ok")

\* an approval that also stamps the execution time
ApproveWriteStampsExecution(its, id, by, clk) ==
    [its EXCEPT ![id].status = "approved",
                ![id].approved_by = by,
                ![id].approved_at = clk,
                ![id].executed_at = clk,
                ![id].updated_at = clk]

\* store.py:136-139
ApproveWrite(its, id, by, clk) ==
    [its EXCEPT ![id].status = "approved",
                ![id].approved_by = by,
                ![id].approved_at = clk,
                ![id].updated_at = clk]

\* store.py:154-158
RejectWrite(its, id, by, reason, clk) ==
    [its EXCEPT ![id].status = "rejected",
                ![id].rejected_by = by,
                ![id].rejected_at = clk,
                ![id].rejection_reason = reason,
                ![id].updated_at = clk]

\* an approve that stamps the reviewer before it checks the status
approveStampsFirst(its, dsk, clk, id, by, ok) ==
    IF id \notin DOMAIN its THEN Outcome(its, dsk, clk, "NotFound")
    ELSE LET stamped == [its EXCEPT ![id].approved_by = by, ![id].updated_at = clk]
             new == ApproveWrite(its, id, by, clk)
         IN IF ~ApproveAllowed(its[id].status)
            THEN Outcome(stamped, dsk, clk, "InvalidTransition")
            ELSE Outcome(new, save_to_disk(new, dsk, ok), clk + 1, "ok")

approve(its, dsk, clk, id, by, ok) ==
    IF id \notin DOMAIN its THEN Outcome(its, dsk, clk, "NotFound")
    ELSE IF ~ApproveAllowed(its[id].status) THEN Outcome(its, dsk, clk, "InvalidTransition")
    ELSE LET new == ApproveWrite(its, id, by, clk)
         IN Outcome(new, save_to_disk(new, dsk, ok), clk + 1, "ok")

\* a reject that gives up when the file cannot be written
rejectFatalOnWriteError(its, dsk, clk, id, by, reason, ok) ==
    IF id \notin DOMAIN its THEN Outcome(its, dsk, clk, "NotFound")
    ELSE IF ~RejectAllowed(its[id].status) THEN Outcome(its, dsk, clk, "InvalidTransition")
    ELSE IF ~ok THEN Outcome(its, dsk, clk, "OSError")
    ELSE LET new == RejectWrite(its, id, by, reason, clk)
         IN Outcome(new, save_to_disk(new, dsk, ok), clk + 1, "ok")

reject(its, dsk, clk, id, by, reason, ok) ==
    IF id \notin DOMAIN its THEN Outcome(its, dsk, clk, "NotFound")
    ELSE IF ~RejectAllowed(its[id].status) THEN Outcome(its, dsk, clk, "InvalidTransition")
    ELSE LET new == RejectWrite(its, id, by, reason, clk)
         IN Outcome(new, save_to_disk(new, dsk, ok), clk + 1, "ok")

\* a mark_executed that forgets to store the result
mark_executedDropsResult(its, dsk, clk, id, result, ok) ==
    IF id \notin DOMAIN its THEN Outcome(its, dsk, clk, "NotFound")
    ELSE LET new == [its EXCEPT ![id].status = "executed",
                                ![id].executed_at = clk,
                                ![id].execution_error = None,
                                ![id].updated_at = clk]
         IN Outcome(new, save_to_disk(new, dsk, ok), clk + 1, "ok")

mark_executed(its, dsk, clk, id, result, ok) ==
    IF id \notin DOMAIN its THEN Outcome(its, dsk, clk, "NotFound")
    ELSE IF ~MarkAllowed(its[id].status) THEN Outcome(its, dsk, clk, "InvalidTransition")
    ELSE LET new == [its EXCEPT ![id].status = "executed",
                                ![id].executed_at = clk,
                                ![id].execution_result = result,
                                ![id].execution_error = None,
                                ![id].updated_at = clk]
         IN Outcome(new, save_to_disk(new, dsk, ok), clk + 1, "ok")

\* a mark_failed that rebuilds the record instead of updating it
mark_failedRebuilds(its, dsk, clk, id, error, ok) ==
    IF id \notin DOMAIN its THEN Outcome(its, dsk, clk, "NotFound")
    ELSE LET fresh == PendingAction(id, its[id].action_plan, clk, NoAttribution)
             new == [its EXCEPT ![id] = [fresh EXCEPT !.status = "failed",
                                                      !.executed_at = clk,
                                                      !.execution_error = error]]
         IN Outcome(new, save_to_disk(new, dsk, ok), clk + 1, "ok")

\* a lookup that creates the record it does not find
mark_failedUpsert(its, dsk, clk, id, error, ok) ==
    LET base == [i \in DOMAIN its \cup {id} |->
                    IF i \in DOMAIN its THEN its[i] ELSE PendingAction(id, None, clk, NoAttribution)]
        new == [base EXCEPT ![id].status = "failed",
                            ![id].executed_at = clk,
                            ![id].execution_error = error,
                            ![id].updated_at = clk]
    IN Outcome(new, save_to_disk(new, dsk, ok), clk + 1, "ok")

mark_failed(its, dsk, clk, id, error, ok) ==
    IF id \notin DOMAIN its THEN Outcome(its, dsk, clk, "NotFound")
    ELSE IF ~MarkAllowed(its[id].status) THEN Outcome(its, dsk, clk, "InvalidTransition")
    ELSE LET new == [its EXCEPT ![id].status = "failed",
                                ![id].executed_at = clk,
                                ![id].execution_error = error,
                                ![id].updated_at = clk]
         IN Outcome(new, save_to_disk(new, dsk, ok), clk + 1, "ok")

get(its, id) == IF id \in DOMAIN its THEN its[id] ELSE None

StatusOf(its, id) == IF id \in DOMAIN its THEN its[id].status ELSE "absent"

(* --------------------- values of the other parts ---------------------- *)
Tasks == 1..MaxTasks
IdleTask == [pc |-> "idle", kind |-> "none", id |-> 0, execute |-> FALSE,
             code |-> 0, body |-> "none"]
NoHistory == [approved |-> 0, rejected |-> 0, executor |-> 0, marked |-> 0]
AuditActions == {"pending_action_approved", "pending_action_rejected",
                 "execute_approved_action:success", "execute_approved_action:error"}

Threads == 1..MaxThreads
IdleThread == [pc |-> "idle", op |-> "none", id |-> 0, by |-> None, reason |-> None,
               outcome |-> "none", blockedBy |-> 0]

NoEstimate == -1
IdleProcess == [pc |-> "start", metadata |-> None, pending_id |-> 0, logged |-> << >>,
                next |-> "none"]
NoPlan == [action_type |-> "none", tool |-> "none", requires_confirmation |-> FALSE,
           parameters |-> "none", bulk_estimate |-> NoEstimate, warnings |-> << >>]

\* ExecutorAgent after __init__: mcp_host is None; the audit logger and the
\* host getter are None when their import failed
Agents == [audit_logger : BOOLEAN, mcp_host : {None}, get_mcp_host : BOOLEAN]
ConstructedAgent == [audit_logger |-> TRUE, mcp_host |-> None, get_mcp_host |-> TRUE]
Metadatas == {[user_id |-> None, session_id |-> None],
              [user_id |-> "u1", session_id |-> "s1"]}
IdleExecution == [pc |-> "idle", plan |-> None, metadata |-> None, host |-> "none",
                  outcome |-> "none", invocations |-> << >>, ret |-> << >>,
                  raised |-> None, audited |-> 0]

Servers == {"neo4j", "basex", "bsdd"}
ToolNames == {"cypher_query", "delete_nodes"}
Callers == 1..MaxTasks
NoSession == 0
MCPConnection == [session |-> NoSession, tools |-> {}, is_connected |-> FALSE,
                  retry_count |-> 0]
EmptyPool == [s \in {} |-> MCPConnection]
IdleCaller == [pc |-> "idle", server |-> None, tool |-> None, via |-> NoSession,
               open |-> FALSE, overdue |-> FALSE]
\* the session a health_check's connect opens belongs to no call_tool task
HealthSession == MaxTasks + 1
NoHealth == [n \in {} |-> FALSE]
IdleHealth == [pc |-> "idle", size |-> 0, idx |-> 0, result |-> NoHealth, raised |-> None]
NoGlobalHost == [exists |-> FALSE, initialized |-> FALSE]
IdleGetter == [pc |-> "idle", ready |-> FALSE]
IdleUser == [pc |-> "idle", store |-> 0]
NoHostStep == [op |-> "init", server |-> None, tool |-> None, task |-> 0, outcome |-> "none"]

(* ------------------ the store as called by its clients ---------------- *)
InitRest ==
    /\ items = EmptyTable
    /\ diskOk = TRUE
    /\ now = 1
    /\ nextId = 1
    /\ last = [op |-> "init", id |-> 0, arg |-> None, pre |-> "absent", outcome |-> "ok"]
    /\ lastSave = "none"
    /\ store2 = [built |-> FALSE, items |-> EmptyTable]
    /\ tasks = [t \in Tasks |-> IdleTask]
    /\ hist = [i \in Ids |-> NoHistory]
    /\ audit = [a \in AuditActions |-> 0]
    /\ thr = [t \in Threads |-> IdleThread]
    /\ lockOwner = 0
    /\ plan = NoPlan
    /\ proc = IdleProcess
    /\ execution = IdleExecution
    /\ events = << >>
    /\ executions = 0
    /\ callers = [t \in Callers |-> IdleCaller]
    /\ hostLast = NoHostStep
    /\ health = IdleHealth
    /\ mcp_host = NoGlobalHost
    /\ getters = [t \in Callers |-> IdleGetter]
    /\ instance = 0
    /\ stores = << >>
    /\ users = [t \in Threads |-> IdleUser]

InitCommon == InitRest /\ disk = NoFile

NoHost == agent = ConstructedAgent /\ pool = EmptyPool /\ order = << >>

Init == InitCommon /\ executorOk = TRUE /\ query = << >> /\ NoHost

Apply(r, op, id, arg) ==
    /\ items' = r.items
    /\ disk' = r.disk
    /\ now' = r.now
    /\ last' = [op |-> op, id |-> id, arg |-> arg, pre |-> StatusOf(items, id),
                outcome |-> r.outcome]
    /\ lastSave' = IF r.outcome # "ok" THEN lastSave
                   ELSE IF diskOk THEN "ok" ELSE "OSError"

StoreCreate ==
    \E p \in Plans :
        /\ nextId <= MaxIds
        /\ create(items, disk, now, nextId, p, Attribution, diskOk).now <= MaxClock
        /\ Apply(create(items, disk, now, nextId, p, Attribution, diskOk), "create", nextId, p)
        /\ nextId' = nextId + 1
        /\ UNCHANGED <<diskOk, store2, apiVars, thrVars, polVars, execVars, hostVars, healthVars, initVars, singletonVars>>

StoreApprove ==
    \E id \in Ids, by \in Reviewers :
        /\ approve(items, disk, now, id, by, diskOk).now <= MaxClock
        /\ Apply(approve(items, disk, now, id, by, diskOk), "approve", id, by)
        /\ UNCHANGED <<diskOk, nextId, store2, apiVars, thrVars, polVars, execVars, hostVars, healthVars, initVars, singletonVars>>

StoreReject ==
    \E id \in Ids, by \in Reviewers, reason \in Reasons :
        /\ reject(items, disk, now, id, by, reason, diskOk).now <= MaxClock
        /\ Apply(reject(items, disk, now, id, by, reason, diskOk), "reject", id, reason)
        /\ UNCHANGED <<diskOk, nextId, store2, apiVars, thrVars, polVars, execVars, hostVars, healthVars, initVars, singletonVars>>

StoreMarkExecuted ==
    \E id \in Ids, result \in Results :
        /\ mark_executed(items, disk, now, id, result, diskOk).now <= MaxClock
        /\ Apply(mark_executed(items, disk, now, id, result, diskOk), "mark_executed", id, result)
        /\ UNCHANGED <<diskOk, nextId, store2, apiVars, thrVars, polVars, execVars, hostVars, healthVars, initVars, singletonVars>>

StoreMarkFailed ==
    \E id \in Ids, error \in Errors :
        /\ mark_failed(items, disk, now, id, error, diskOk).now <= MaxClock
        /\ Apply(mark_failed(items, disk, now, id, error, diskOk), "mark_failed", id, error)
        /\ UNCHANGED <<diskOk, nextId, store2, apiVars, thrVars, polVars, execVars, hostVars, healthVars, initVars, singletonVars>>

\* the disk starts or stops failing writes (OSError in _save_to_disk)
DiskFault ==
    /\ diskOk' = ~diskOk
    /\ last' = [op |-> "disk_fault", id |-> 0, arg |-> None, pre |-> "absent", outcome |-> "ok"]
    /\ UNCHANGED <<items, disk, now, nextId, lastSave, store2, apiVars, thrVars, polVars, execVars, hostVars, healthVars, initVars, singletonVars>>

\* PendingActionStore(persistence_path=path) on the file of the first store
NewStore ==
    \E readable \in BOOLEAN :
        /\ store2' = [built |-> TRUE, items |-> load_from_disk(disk, readable)]
        /\ last' = [op |-> "new_store", id |-> 0, arg |-> None, pre |-> "absent",
                    outcome |-> IF readable \/ disk.kind = "absent" THEN "ok"
                                ELSE "unreadable"]
        /\ UNCHANGED <<items, disk, diskOk, now, nextId, lastSave, apiVars, thrVars, polVars, execVars, hostVars, healthVars, initVars, singletonVars>>

NextStore ==
    \/ StoreCreate
    \/ StoreApprove
    \/ StoreReject
    \/ StoreMarkExecuted
    \/ StoreMarkFailed
    \/ DiskFault

SpecStore == Init /\ [][NextStore]_vars

\* the first store works until the second one is constructed from its file
NextPersist ==
    \/ ~store2.built /\ StoreCreate
    \/ ~store2.built /\ StoreApprove
    \/ ~store2.built /\ StoreReject
    \/ ~store2.built /\ StoreMarkExecuted
    \/ ~store2.built /\ StoreMarkFailed
    \/ ~store2.built /\ DiskFault
    \/ ~store2.built /\ NewStore

SpecPersist == Init /\ [][NextPersist]_vars

\* PendingActionStore(persistence_path=path) when the process starts: the
\* store does not exist before, and does not exist if __init__ raised
Constructed == last.op # "init" /\ (last.op = "construct" => last.outcome = "ok")

Construct ==
    \E readable \in BOOLEAN :
        LET e == LoadError(disk, readable)
            loaded == load_from_disk(disk, readable)
        IN
        /\ last.op = "init"
        /\ items' = loaded
        /\ nextId' = Cardinality(DOMAIN loaded) + 1
        /\ last' = [op |-> "construct", id |-> 0, arg |-> IF readable THEN disk.kind ELSE "unreadable",
                    pre |-> "absent", outcome |-> IF Escapes(e) THEN e ELSE "ok"]
        /\ UNCHANGED <<disk, diskOk, now, lastSave, store2, apiVars, thrVars, polVars, execVars, hostVars, healthVars, initVars, singletonVars>>

InitLoad == InitRest /\ disk \in Files /\ executorOk = TRUE /\ query = << >> /\ NoHost

NextLoad ==
    \/ Construct
    \/ Constructed /\ StoreCreate
    \/ Constructed /\ StoreApprove
    \/ Constructed /\ StoreReject
    \/ Constructed /\ StoreMarkExecuted
    \/ Constructed /\ StoreMarkFailed

SpecLoad == InitLoad /\ [][NextLoad]_vars

(* ------------------------ the approval endpoints ---------------------- *)
\* requests are numbered in arrival order
FirstIdle(t) == tasks[t].pc = "idle" /\ \A u \in Tasks : u < t => tasks[u].pc # "idle"

Respond(kind, id, execute, code, body) ==
    [pc |-> "done", kind |-> kind, id |-> id, execute |-> execute, code |-> code, body |-> body]

Count(h, id, field) == [h EXCEPT ![id][field] = @ + 1]

Log(a, action) == [a EXCEPT ![action] = @ + 1]

\* POST /{action_id}/approve, up to the await of _executor.execute
ApproveEndpoint ==
    \E t \in Tasks, id \in Ids, execute \in BOOLEAN, by \in Reviewers :
        LET r == approve(items, disk, now, id, by, diskOk) IN
        /\ FirstIdle(t)
        /\ r.now <= MaxClock
        /\ Apply(r, "approve", id, by)
        /\ IF r.outcome = "NotFound" THEN
              /\ tasks' = [tasks EXCEPT ![t] = Respond("approve", id, execute, 404, "not_found")]
              /\ UNCHANGED <<hist, audit>>
           ELSE IF r.outcome = "InvalidTransition" THEN
              /\ tasks' = [tasks EXCEPT ![t] = Respond("approve", id, execute, 409, "conflict")]
              /\ UNCHANGED <<hist, audit>>
           ELSE
              /\ audit' = Log(audit, "pending_action_approved")
              /\ IF ~execute THEN
                    /\ tasks' = [tasks EXCEPT ![t] = Respond("approve", id, execute, 200, "approved")]
                    /\ hist' = Count(hist, id, "approved")
                 ELSE IF ~executorOk THEN
                    /\ tasks' = [tasks EXCEPT ![t] = Respond("approve", id, execute, 503, "no_executor")]
                    /\ hist' = Count(hist, id, "approved")
                 ELSE
                    /\ tasks' = [tasks EXCEPT ![t] =
                                   [Respond("approve", id, execute, 0, "none") EXCEPT !.pc = "executing"]]
                    /\ hist' = Count(Count(hist, id, "approved"), id, "executor")
        /\ UNCHANGED <<diskOk, nextId, store2, executorOk, thrVars, polVars, execVars, hostVars, healthVars, initVars, singletonVars>>

\* _executor.execute returns or raises; mark_executed / mark_failed follow
ExecuteReturns ==
    \E t \in Tasks, out \in Results \cup {"raise"}, error \in Errors :
        LET id == tasks[t].id
            r1 == mark_executed(items, disk, now, id, out, diskOk)
            r2 == mark_failed(items, disk, now, id, error, diskOk)
            good == out # "raise" /\ r1.outcome = "ok"
            r == IF good THEN r1 ELSE r2
        IN
        /\ tasks[t].pc = "executing"
        /\ Apply(r, IF good THEN "mark_executed" ELSE "mark_failed", id,
                 IF good THEN out ELSE error)
        /\ hist' = IF r.outcome = "ok" THEN Count(hist, id, "marked") ELSE hist
        /\ audit' = IF good THEN Log(audit, "execute_approved_action:success")
                    ELSE IF r.outcome = "ok" THEN Log(audit, "execute_approved_action:error")
                    ELSE audit
        /\ tasks' = [tasks EXCEPT ![t] =
                       IF good THEN Respond("approve", id, TRUE, 200, "executed")
                       ELSE IF r.outcome = "ok" THEN Respond("approve", id, TRUE, 500, "failed")
                       ELSE Respond("approve", id, TRUE, 500, "unhandled")]
        /\ UNCHANGED <<diskOk, nextId, store2, executorOk, thrVars, polVars, execVars, hostVars, healthVars, initVars, singletonVars>>

\* POST /{action_id}/reject
RejectEndpoint ==
    \E t \in Tasks, id \in Ids, by \in Reviewers, reason \in Reasons :
        LET r == reject(items, disk, now, id, by, reason, diskOk) IN
        /\ FirstIdle(t)
        /\ r.now <= MaxClock
        /\ Apply(r, "reject", id, reason)
        /\ IF r.outcome = "NotFound" THEN
              /\ tasks' = [tasks EXCEPT ![t] = Respond("reject", id, FALSE, 404, "not_found")]
              /\ UNCHANGED <<hist, audit>>
           ELSE IF r.outcome = "InvalidTransition" THEN
              /\ tasks' = [tasks EXCEPT ![t] = Respond("reject", id, FALSE, 409, "conflict")]
              /\ UNCHANGED <<hist, audit>>
           ELSE
              /\ tasks' = [tasks EXCEPT ![t] = Respond("reject", id, FALSE, 200, "rejected")]
              /\ hist' = Count(hist, id, "rejected")
              /\ audit' = Log(audit, "pending_action_rejected")
        /\ UNCHANGED <<diskOk, nextId, store2, executorOk, thrVars, polVars, execVars, hostVars, healthVars, initVars, singletonVars>>

InitApi ==
    InitCommon /\ executorOk \in BOOLEAN /\ query = << >> /\ NoHost

Next ==
    \/ StoreCreate
    \/ ApproveEndpoint
    \/ ExecuteReturns
    \/ RejectEndpoint

Spec == InitApi /\ [][Next]_vars

(* --------- threads inside PendingActionStore.approve / reject --------- *)
\* `with self._lock:` lets a thread in when no other thread holds the lock
LockFreeAlways(t) == TRUE

LockFree(t) == lockOwner = 0 \/ lockOwner = t

\* a request thread calls store.approve or store.reject
ThreadCall ==
    \E t \in Threads, op \in {"approve", "reject"}, id \in Ids,
       by \in {"admin"}, reason \in {"not needed"} :
        /\ thr[t].pc = "idle"
        /\ \A u \in Threads : u < t => thr[u].pc # "idle"
        /\ thr' = [thr EXCEPT ![t] = [pc |-> "acquire", op |-> op, id |-> id, by |-> by,
                                      reason |-> reason, outcome |-> "none",
                                      blockedBy |-> lockOwner]]
        /\ UNCHANGED <<storeVars, store2, apiVars, lockOwner, polVars, execVars, hostVars, healthVars, initVars, singletonVars>>

\* store.py:132 / 150: with self._lock
ThreadAcquire ==
    \E t \in Threads :
        /\ thr[t].pc = "acquire"
        /\ LockFree(t)
        /\ lockOwner' = t
        /\ thr' = [thr EXCEPT ![t].pc = "check"]
        /\ UNCHANGED <<storeVars, store2, apiVars, polVars, execVars, hostVars, healthVars, initVars, singletonVars>>

\* store.py:133-135 / 151-153: _require and the status check
ThreadCheck ==
    \E t \in Threads :
        LET id == thr[t].id
            allowed == IF thr[t].op = "approve" THEN ApproveAllowed(StatusOf(items, id))
                       ELSE RejectAllowed(StatusOf(items, id))
        IN
        /\ thr[t].pc = "check"
        /\ thr' = [thr EXCEPT ![t] =
                     IF id \notin DOMAIN items
                     THEN [@ EXCEPT !.pc = "release", !.outcome = "NotFound"]
                     ELSE IF ~allowed
                     THEN [@ EXCEPT !.pc = "release", !.outcome = "InvalidTransition"]
                     ELSE [@ EXCEPT !.pc = "write"]]
        /\ UNCHANGED <<storeVars, store2, apiVars, lockOwner, polVars, execVars, hostVars, healthVars, initVars, singletonVars>>

\* store.py:136-141 / 154-160: the field writes, the save and the return
ThreadWrite ==
    \E t \in Threads :
        LET id == thr[t].id
            new == IF thr[t].op = "approve" THEN ApproveWrite(items, id, thr[t].by, now)
                   ELSE RejectWrite(items, id, thr[t].by, thr[t].reason, now)
        IN
        /\ thr[t].pc = "write"
        /\ Apply(Outcome(new, save_to_disk(new, disk, diskOk), now + 1, "ok"),
                 thr[t].op, id, IF thr[t].op = "approve" THEN thr[t].by ELSE thr[t].reason)
        /\ hist' = Count(hist, id, IF thr[t].op = "approve" THEN "approved" ELSE "rejected")
        /\ thr' = [thr EXCEPT ![t].pc = "release", ![t].outcome = "ok"]
        /\ UNCHANGED <<diskOk, nextId, store2, tasks, executorOk, audit, lockOwner, polVars, execVars, hostVars, healthVars, initVars, singletonVars>>

\* leaving the with block, by return or by exception
ThreadRelease ==
    \E t \in Threads :
        /\ thr[t].pc = "release"
        /\ lockOwner' = IF lockOwner = t THEN 0 ELSE lockOwner
        /\ thr' = [thr EXCEPT ![t].pc = "done"]
        /\ UNCHANGED <<storeVars, store2, apiVars, polVars, execVars, hostVars, healthVars, initVars, singletonVars>>

\* create takes the lock too (store.py:107)
NextThreads ==
    \/ lockOwner = 0 /\ StoreCreate
    \/ ThreadCall
    \/ ThreadAcquire
    \/ ThreadCheck
    \/ ThreadWrite
    \/ ThreadRelease

SpecThreads == Init /\ [][NextThreads]_vars

(* ------------------ ActionAgent._plan_action (policy) ----------------- *)
\* the user input, lower-cased, as words separated by single spaces
Vocab == {"create", "connect", "update", "delete", "store", "segment", "reset",
          "all", "items", "5", "6", "10", "11"}
Queries == UNION {[1..n -> Vocab] : n \in 0..MaxQueryLen}

Numbers == {"5", "6", "10", "11"}
NumVal(w) == CASE w = "5" -> 5 [] w = "6" -> 6 [] w = "10" -> 10 [] w = "11" -> 11

\* `word in query_lower` is a substring test: "set" is in "reset"
Infixes == {<<"reset", "set">>, <<"items", "item">>}
Mentions(q, words) ==
    \E k \in 1..Len(q) : q[k] \in words \/ \E w \in words : <<q[k], w>> \in Infixes

CreateWords == {"create", "add", "new", "insert"}
RelationshipWords == {"relationship", "connect"}
UpdateWords == {"update", "modify", "change", "edit", "set"}
DeleteWords == {"delete", "remove", "drop"}
StoreWords == {"store", "save", "upload", "document"}
SegmentWords == {"segment", "classify", "analyze point"}
GlobalMarkers == {"all", "every", "entire", "bulk"}
CountedVerbs == {"create", "add", "insert", "update", "modify", "change", "delete", "remove"}
CountNouns == {"item", "items", "node", "nodes", "element", "elements", "segment", "segments"}

GlobalScopeEstimate == 999
BulkUpdateThreshold == 5
LargeCreateThreshold == 10

Least(S) == CHOOSE k \in S : \A j \in S : k <= j

estimate_bulk_count(q) ==
    LET marked == {k \in 1..Len(q) - 1 : q[k] \in GlobalMarkers}
        afterVerb == {k \in 1..Len(q) - 1 : q[k] \in CountedVerbs /\ q[k + 1] \in Numbers}
        beforeNoun == {k \in 1..Len(q) - 1 : q[k] \in Numbers /\ q[k + 1] \in CountNouns}
    IN IF marked # {} THEN GlobalScopeEstimate
       ELSE IF afterVerb # {} THEN NumVal(q[Least(afterVerb) + 1])
       ELSE IF beforeNoun # {} THEN NumVal(q[Least(beforeNoun)])
       ELSE NoEstimate

\* action_agent.py:268-301: action type and tool by the first keyword family
Classify(q) ==
    IF Mentions(q, CreateWords)
    THEN IF Mentions(q, RelationshipWords)
         THEN [action_type |-> "create_relationship", tool |-> "create_relationships"]
         ELSE [action_type |-> "create_node", tool |-> "create_nodes"]
    ELSE IF Mentions(q, UpdateWords)
    THEN [action_type |-> "update_properties", tool |-> "update_properties"]
    ELSE IF Mentions(q, DeleteWords)
    THEN [action_type |-> "delete", tool |-> "delete_nodes"]
    ELSE IF Mentions(q, StoreWords)
    THEN [action_type |-> "store_document", tool |-> "store_document"]
    ELSE IF Mentions(q, SegmentWords)
    THEN [action_type |-> "segment_pointcloud", tool |-> "online_segmentation"]
    ELSE [action_type |-> "update_properties", tool |-> "update_properties"]

\* the requires_confirmation each branch of the classification sets
NeverConfirmed(action_type) == FALSE

ConfirmedByType(action_type) == action_type = "delete"

\* action_agent.py:307
AtLeastBulkUpdate(action_type, n) ==
    action_type = "update_properties" /\ n # NoEstimate /\ n >= BulkUpdateThreshold

IsBulkUpdate(action_type, n) ==
    action_type = "update_properties" /\ n # NoEstimate /\ n > BulkUpdateThreshold

IsLargeCreateAtLeast(action_type, n) ==
    action_type = "create_node" /\ n # NoEstimate /\ n >= LargeCreateThreshold

\* action_agent.py:310
IsLargeCreate(action_type, n) ==
    action_type = "create_node" /\ n # NoEstimate /\ n > LargeCreateThreshold

extract_parameters(action_type) ==
    CASE action_type = "create_node" -> "labels,properties"
      [] action_type = "create_relationship" -> "from_uri,to_uri,relationship_type"
      [] action_type = "update_properties" -> "target_type,uri,properties"
      [] action_type = "store_document" -> "uri,content,content_type,metadata"
      [] action_type = "segment_pointcloud" -> "input_file,model"
      [] action_type = "delete" -> "uris,detach"
      [] OTHER -> "none"

plan_action(q) ==
    LET bulk == estimate_bulk_count(q)
        c == Classify(q)
    IN [action_type |-> c.action_type,
        tool |-> c.tool,
        requires_confirmation |->
            IF IsBulkUpdate(c.action_type, bulk) THEN TRUE ELSE ConfirmedByType(c.action_type),
        parameters |-> extract_parameters(c.action_type),
        bulk_estimate |-> bulk,
        warnings |-> IF IsLargeCreate(c.action_type, bulk)
                     THEN <<[warning |-> "Large create detected", estimated |-> bulk]>>
                     ELSE << >>]

\* action_agent.py:148: action_plan = await self._plan_action(user_input)
PlanAction ==
    /\ plan = NoPlan
    /\ plan' = plan_action(query)
    /\ UNCHANGED <<storeVars, store2, apiVars, thrVars, query, proc, execVars, hostVars, healthVars, initVars, singletonVars>>

InitPolicy ==
    InitCommon /\ executorOk = TRUE /\ query \in Queries /\ NoHost

NextPolicy ==
    \/ PlanAction

SpecPolicy == InitPolicy /\ [][NextPolicy]_vars

(* ----------------------- ExecutorAgent.execute ----------------------- *)
\* the plans handed to execute: those _plan_action builds, and a query plan
ActionPlans ==
    {[action_type |-> c[1], tool |-> c[2], parameters |-> extract_parameters(c[1])] :
        c \in {<<"create_node", "create_nodes">>,
               <<"create_relationship", "create_relationships">>,
               <<"update_properties", "update_properties">>,
               <<"delete", "delete_nodes">>,
               <<"store_document", "store_document">>,
               <<"segment_pointcloud", "online_segmentation">>,
               <<"query", "cypher_query">>}}

\* executor_agent.py:60
SupportedTools == {"create_nodes", "create_relationships", "update_properties",
                   "delete_nodes", "cypher_query"}

\* the tool_name literal of each branch (executor_agent.py:66, 79, 89, 100, 109)
ToolNameFor(tool) ==
    CASE tool = "create_nodes" -> "create_nodes"
      [] tool = "create_relationships" -> "create_relationships"
      [] tool = "update_properties" -> "update_properties"
      [] tool = "delete_nodes" -> "delete_nodes"
      [] OTHER -> "cypher_query"

\* a call_tool that lets the tool's own exception through
HostRaisesUnwrapped ==
    [o \in {"NotInitialized", "UnknownServer", "ConnectFailed", "UnknownTool",
            "ToolExecutionFailed"} |->
        IF o \in {"UnknownServer", "UnknownTool"} THEN "ValueError"
        ELSE IF o = "ToolExecutionFailed" THEN "OSError" ELSE "RuntimeError"]

\* what MCPHost.call_tool raises, by exception type
HostRaises ==
    [o \in {"NotInitialized", "UnknownServer", "ConnectFailed", "UnknownTool",
            "ToolExecutionFailed"} |->
        IF o \in {"UnknownServer", "UnknownTool"} THEN "ValueError" ELSE "RuntimeError"]

\* the shapes of a result it returns
\* (an object or a dict whose content[0].text is JSON text for a list of
\* objects, one object or a number; text that is not JSON; no content; a
\* bare list)
Envelopes == {"content_json_list", "content_json_object", "content_not_json", "no_content",
              "dict_content_json_list", "content_json_number", "raw_list"}

HostOutcomes == DOMAIN HostRaises \cup Envelopes

CaughtWithoutValueError == {"RuntimeError", "TypeError"}

\* executor_agent.py:129
CaughtByExecutor == {"RuntimeError", "ValueError", "TypeError"}

\* a value that json.loads returns and that is not a dict
JsonNumber == [json_number |-> 42]

parse_mcp_result(result) ==
    CASE result \in {"content_json_list", "dict_content_json_list"} ->
            <<[row |-> 1], [row |-> 2]>>
      [] result = "content_json_object" -> <<[row |-> 1]>>
      [] result = "content_json_number" -> <<JsonNumber>>
      [] OTHER -> <<[status |-> "unknown", raw |-> result]>>

\* executor_agent.py:133-140, without the timestamp
FallbackRecord(action_plan) ==
    [status |-> "success",
     action_type |-> IF action_plan.action_type = None THEN "unknown"
                     ELSE action_plan.action_type,
     tool |-> action_plan.tool,
     parameters |-> action_plan.parameters,
     note |-> "fallback_result_no_mcp"]

AuditRecordAnonymous(action_plan, metadata) ==
    [agent_name |-> "executor_agent", action |-> action_plan.action_type,
     intent |-> "execution", result |-> "success",
     user_id |-> None, session_id |-> None]

\* the AuditEvent of log_agent_action as execute calls it
AuditRecord(action_plan, metadata) ==
    [agent_name |-> "executor_agent", action |-> action_plan.action_type,
     intent |-> "execution", result |-> "success",
     user_id |-> metadata.user_id, session_id |-> metadata.session_id]

\* `if self.audit_logger: self.audit_logger.log_agent_action(...)`
Audit(ex) ==
    events' = IF agent.audit_logger
              THEN Append(events, AuditRecord(ex.plan, ex.metadata))
              ELSE events

\* executor_agent.py:132-152
ReturnFallback(ex) ==
    /\ execution' = [ex EXCEPT !.pc = "done",
                               !.ret = <<FallbackRecord(ex.plan)>>,
                               !.audited = IF agent.audit_logger THEN @ + 1 ELSE @]
    /\ Audit(ex)
    /\ executions' = executions + 1

\* executor_agent.py:115-127
ReturnParsed(ex, result) ==
    /\ execution' = [ex EXCEPT !.pc = "done",
                               !.outcome = result,
                               !.ret = parse_mcp_result(result),
                               !.audited = IF agent.audit_logger THEN @ + 1 ELSE @]
    /\ Audit(ex)
    /\ executions' = executions + 1

\* a plan whose "parameters" is a non-empty value that is not a dict
NotADict == "not_a_dict"

\* executor_agent.py:59-113: the one awaited call_tool of the chosen branch;
\* params.get(...) on parameters that are not a dict raises AttributeError,
\* which the except clause at 129 does not name
Dispatch(ex, host) ==
    IF ex.plan.tool \in SupportedTools /\ host # None /\ ex.plan.parameters = NotADict
    THEN /\ execution' = [ex EXCEPT !.pc = "done", !.host = "present",
                                    !.raised = "AttributeError"]
         /\ executions' = executions + 1
         /\ UNCHANGED events
    ELSE IF ex.plan.tool \in SupportedTools /\ host # None
    THEN /\ execution' =
              [ex EXCEPT !.pc = "call_tool",
                         !.host = "present",
                         !.invocations = Append(@, [server_name |-> "neo4j",
                                                    tool_name |-> ToolNameFor(ex.plan.tool)])]
         /\ UNCHANGED <<events, executions>>
    ELSE ReturnFallback([ex EXCEPT !.host = IF host = None THEN "absent" ELSE "present"])

\* execute(action_plan, metadata) up to its first await
executor_execute(action_plan, metadata) ==
    LET ex == [IdleExecution EXCEPT !.plan = action_plan, !.metadata = metadata] IN
    /\ execution.pc \in {"idle", "done"}
    /\ executions < MaxExecutions
    /\ IF agent.mcp_host = None /\ agent.get_mcp_host
       THEN /\ execution' = [ex EXCEPT !.pc = "get_mcp_host"]
            /\ UNCHANGED <<events, executions>>
       ELSE Dispatch(ex, agent.mcp_host)

Execute ==
    \E action_plan \in ActionPlans, metadata \in Metadatas :
        /\ executor_execute(action_plan, metadata)
        /\ UNCHANGED <<storeVars, store2, apiVars, thrVars, polVars, agent, hostVars, healthVars, initVars, singletonVars>>

\* executor_agent.py:49: get_mcp_host() returns the global host
HostResolved ==
    /\ execution.pc = "get_mcp_host"
    /\ agent' = [agent EXCEPT !.mcp_host = "host"]
    /\ Dispatch(execution, "host")
    /\ UNCHANGED <<storeVars, store2, apiVars, thrVars, polVars, hostVars, healthVars, initVars, singletonVars>>

\* the awaited call_tool returns a result or raises
CallToolReturns ==
    \E out \in HostOutcomes :
        /\ execution.pc = "call_tool"
        /\ IF out \in Envelopes THEN ReturnParsed(execution, out)
           ELSE IF HostRaises[out] \in CaughtByExecutor
           THEN ReturnFallback([execution EXCEPT !.outcome = out])
           ELSE /\ execution' = [execution EXCEPT !.pc = "done", !.outcome = out,
                                                  !.raised = HostRaises[out]]
                /\ executions' = executions + 1
                /\ UNCHANGED events
        /\ UNCHANGED <<storeVars, store2, apiVars, thrVars, polVars, agent, hostVars, healthVars, initVars, singletonVars>>

InitExec ==
    InitCommon /\ executorOk = TRUE /\ query = << >> /\ agent \in Agents /\ pool = EmptyPool /\ order = << >>

NextExec ==
    \/ Execute
    \/ HostResolved
    \/ CallToolReturns

SpecExec == InitExec /\ [][NextExec]_vars

(* ------------- POST approve with execute, on the executor ------------- *)
\* the plans of the queued records: a delete, and an update whose parameters
\* are not a dict
ServedPlans ==
    {[action_type |-> "delete", tool |-> "delete_nodes",
      parameters |-> extract_parameters("delete")],
     [action_type |-> "update_properties", tool |-> "update_properties",
      parameters |-> NotADict]}

\* store.create(action_plan=...)
ServeCreate ==
    \E p \in ServedPlans :
        /\ nextId <= MaxIds
        /\ create(items, disk, now, nextId, p, Attribution, diskOk).now <= MaxClock
        /\ Apply(create(items, disk, now, nextId, p, Attribution, diskOk), "create", nextId, p)
        /\ nextId' = nextId + 1
        /\ UNCHANGED <<diskOk, store2, apiVars, thrVars, polVars, execVars, hostVars,
                       healthVars, initVars, singletonVars>>

\* api.py:91-95: the request calls _executor.execute with the record's plan
\* and attribution (one call of the executor is followed at a time; a call
\* shares nothing with another one but agent.mcp_host)
ServeExecute ==
    \E t \in Tasks :
        /\ tasks[t].pc = "executing"
        /\ \A u \in Tasks : tasks[u].pc # "awaiting"
        /\ executor_execute(items[tasks[t].id].action_plan,
                            [user_id |-> items[tasks[t].id].user_id,
                             session_id |-> items[tasks[t].id].session_id])
        /\ tasks' = [tasks EXCEPT ![t].pc = "awaiting"]
        /\ UNCHANGED <<storeVars, store2, executorOk, hist, audit, thrVars, polVars, agent,
                       hostVars, healthVars, initVars, singletonVars>>

\* api.py:96-124: execute has returned or raised; mark_executed with what it
\* returned, or mark_failed with str(exc), and the response
ServeFinished ==
    \E t \in Tasks :
        LET id == tasks[t].id
            good == execution.raised = None
            r == IF good THEN mark_executed(items, disk, now, id, execution.ret, diskOk)
                 ELSE mark_failed(items, disk, now, id, execution.raised, diskOk)
        IN
        /\ tasks[t].pc = "awaiting"
        /\ execution.pc = "done"
        /\ Apply(r, IF good THEN "mark_executed" ELSE "mark_failed", id, execution.raised)
        /\ hist' = Count(hist, id, "marked")
        /\ audit' = IF good THEN Log(audit, "execute_approved_action:success")
                    ELSE Log(audit, "execute_approved_action:error")
        /\ tasks' = [tasks EXCEPT ![t] =
                       IF good THEN Respond("approve", id, TRUE, 200, "executed")
                       ELSE Respond("approve", id, TRUE, 500, "failed")]
        /\ UNCHANGED <<diskOk, nextId, store2, executorOk, thrVars, polVars, execVars,
                       hostVars, healthVars, initVars, singletonVars>>

NextServe ==
    \/ ServeCreate
    \/ ApproveEndpoint
    \/ ServeExecute
    \/ HostResolved
    \/ CallToolReturns
    \/ ServeFinished

\* api.py:27-32: the module's ExecutorAgent(), with its audit logger
InitServe ==
    /\ InitCommon
    /\ executorOk = TRUE
    /\ query = << >>
    /\ agent \in {a \in Agents : a.audit_logger}
    /\ pool = EmptyPool
    /\ order = << >>

SpecServe == InitServe /\ [][NextServe]_vars

(* ------------------------ ActionAgent.process ------------------------ *)
\* action_agent.py:137-145: the security layer rejects the input; no plan is made
ValidationFails ==
    /\ proc.pc = "start"
    /\ plan = NoPlan
    /\ proc' = [proc EXCEPT !.pc = "done", !.next = "error_handler"]
    /\ UNCHANGED <<storeVars, store2, apiVars, thrVars, query, plan, execVars, hostVars, healthVars, initVars, singletonVars>>

NeedsApprovalNever(action_plan) == FALSE

\* action_agent.py:151
NeedsApproval(action_plan) == action_plan.requires_confirmation

\* action_agent.py:152-189: the plan is queued in the pending store and the
\* request ends without a call of the executor
QueueForApproval ==
    \E metadata \in Metadatas :
        /\ proc.pc = "start"
        /\ plan # NoPlan
        /\ NeedsApproval(plan)
        /\ nextId <= MaxIds
        /\ Apply(create(items, disk, now, nextId, plan,
                        [user_id |-> metadata.user_id, session_id |-> metadata.session_id,
                         thread_id |-> None], diskOk),
                 "create", nextId, plan.tool)
        /\ nextId' = nextId + 1
        /\ proc' = [proc EXCEPT !.pc = "done", !.metadata = metadata,
                                !.pending_id = nextId, !.next = "END",
                                !.logged = IF agent.audit_logger
                                           THEN Append(@, "pending_action_created") ELSE @]
        /\ UNCHANGED <<diskOk, store2, apiVars, thrVars, query, plan, execVars, hostVars, healthVars, initVars, singletonVars>>

\* action_agent.py:191-199: the plan goes to the executor
InvokeExecutor ==
    \E metadata \in Metadatas :
        /\ proc.pc = "start"
        /\ plan # NoPlan
        /\ ~NeedsApproval(plan)
        /\ executor_execute(plan, metadata)
        /\ proc' = [proc EXCEPT !.pc = "executing", !.metadata = metadata]
        /\ UNCHANGED <<storeVars, store2, apiVars, thrVars, query, plan, agent, hostVars, healthVars, initVars, singletonVars>>

\* action_agent.py:201-248: execute has returned or raised
ProcessReturns ==
    /\ proc.pc = "executing"
    /\ execution.pc = "done"
    /\ proc' = IF execution.raised = None
               THEN [proc EXCEPT !.pc = "done", !.next = "END",
                                 !.logged = IF agent.audit_logger
                                            THEN Append(@, plan.action_type) ELSE @]
               ELSE IF execution.raised \in {"RuntimeError", "ValueError", "TypeError"}
               THEN [proc EXCEPT !.pc = "done", !.next = "error_handler",
                                 !.logged = IF agent.audit_logger
                                            THEN Append(@, "action_failed") ELSE @]
               ELSE [proc EXCEPT !.pc = "done", !.next = "raised"]
    /\ UNCHANGED <<storeVars, store2, apiVars, thrVars, query, plan, execVars, hostVars, healthVars, initVars, singletonVars>>

InitAgent ==
    InitCommon /\ executorOk = TRUE /\ query \in Queries /\ NoHost

NextAgent ==
    \/ ValidationFails
    \/ proc.pc = "start" /\ PlanAction
    \/ QueueForApproval
    \/ InvokeExecutor
    \/ proc.pc = "executing" /\ HostResolved
    \/ proc.pc = "executing" /\ CallToolReturns
    \/ ProcessReturns

SpecAgent == InitAgent /\ [][NextAgent]_vars

(* ------------------------- MCPConnectionPool -------------------------- *)
\* the tool lists a server can report at discovery
ToolLists == {{"cypher_query"}, {"cypher_query", "delete_nodes"}}

PoolFullOffByOne(p) == Cardinality(DOMAIN p) > MaxPoolSize

\* mcp_host.py:104
PoolFull(p) == Cardinality(DOMAIN p) >= MaxPoolSize

ToolKnownAlways(tools, tool_name) == TRUE

\* mcp_host.py:282-283
ToolKnown(tools, tool_name) == tool_name \in tools

HostStep(op, server, tool, task, outcome) ==
    [op |-> op, server |-> server, tool |-> tool, task |-> task, outcome |-> outcome]

\* the session a connection refers to is open while the task that created it
\* is still inside the `async with` blocks of connect
SessionOpen(p, name) ==
    IF p[name].session = HealthSession
    THEN health.pc = "exiting" /\ order[health.idx] = name
    ELSE /\ p[name].session # NoSession
         /\ callers[p[name].session].pc = "exiting"
         /\ callers[p[name].session].server = name

\* the body under `async with self._lock`; nothing in it awaits
add_connection(p, name) ==
    IF PoolFull(p) THEN [pool |-> p, ret |-> "False"]
    ELSE IF name \in DOMAIN p THEN [pool |-> p, ret |-> "False"]
    ELSE [pool |-> [n \in DOMAIN p \cup {name} |->
                       IF n = name THEN MCPConnection ELSE p[n]],
          ret |-> "True"]

AddConnection ==
    \E name \in Servers :
        /\ pool' = add_connection(pool, name).pool
        /\ order' = IF add_connection(pool, name).ret = "True" THEN Append(order, name)
                    ELSE order
        /\ hostLast' = HostStep("add_connection", name, None, 0,
                                add_connection(pool, name).ret)
        /\ UNCHANGED <<storeVars, store2, apiVars, thrVars, polVars, execVars, callers, health, initVars, singletonVars>>

\* mcp_host.py:191-219
Disconnect ==
    \E name \in Servers :
        /\ pool' = IF name \in DOMAIN pool
                   THEN [pool EXCEPT ![name].session = NoSession,
                                     ![name].is_connected = FALSE]
                   ELSE pool
        /\ hostLast' = HostStep("disconnect", name, None, 0,
                                IF name \in DOMAIN pool THEN "True" ELSE "False")
        /\ UNCHANGED <<storeVars, store2, apiVars, thrVars, polVars, execVars, callers, healthVars, initVars, singletonVars>>

\* a call takes the first free task
FirstIdleCaller(t) ==
    callers[t].pc = "idle" /\ \A u \in Callers : u < t => callers[u].pc # "idle"

\* mcp_host.py:281-291: the tool check, then the call on connection.session
\* (a session of None raises AttributeError, caught at 295)
VerifyAndInvoke(t, c, p) ==
    IF ~ToolKnown(p[c.server].tools, c.tool)
    THEN /\ callers' = [callers EXCEPT ![t] = IdleCaller]
         /\ hostLast' = HostStep("call_tool", c.server, c.tool, t, "UnknownTool")
    ELSE IF p[c.server].session = NoSession
    THEN /\ callers' = [callers EXCEPT ![t] = IdleCaller]
         /\ hostLast' = HostStep("call_tool", c.server, c.tool, t, "ToolExecutionFailed")
    ELSE /\ callers' = [callers EXCEPT ![t] =
                           [c EXCEPT !.pc = "invoking",
                                     !.overdue = FALSE,
                                     !.via = p[c.server].session,
                                     !.open = p[c.server].session # t
                                              /\ SessionOpen(p, c.server)]]
         /\ hostLast' = HostStep("invoke", c.server, c.tool, t, "sent")

\* call_tool(server_name, tool_name, arguments) up to its first await
CallTool ==
    \E t \in Callers, server_name \in Servers, tool_name \in ToolNames :
        LET c == [IdleCaller EXCEPT !.server = server_name, !.tool = tool_name] IN
        /\ FirstIdleCaller(t)
        /\ IF server_name \notin DOMAIN pool
           THEN /\ callers' = callers
                /\ hostLast' = HostStep("call_tool", server_name, tool_name, t, "UnknownServer")
           ELSE IF ~pool[server_name].is_connected
           THEN /\ callers' = [callers EXCEPT ![t] = [c EXCEPT !.pc = "connecting"]]
                /\ hostLast' = HostStep("connect", server_name, tool_name, t, "started")
           ELSE VerifyAndInvoke(t, c, pool)
        /\ UNCHANGED <<storeVars, store2, apiVars, thrVars, polVars, execVars, pool, healthVars, initVars, singletonVars>>

\* mcp_host.py:162-173: the handshake and the discovery succeed and the
\* connection's fields are set, inside both `async with` blocks
ConnectEstablished ==
    \E t \in Callers, tools \in ToolLists :
        /\ callers[t].pc = "connecting"
        /\ pool' = [pool EXCEPT ![callers[t].server] =
                       [session |-> t, tools |-> tools, is_connected |-> TRUE,
                        retry_count |-> 0]]
        /\ callers' = [callers EXCEPT ![t].pc = "exiting", ![t].overdue = FALSE]
        /\ hostLast' = HostStep("connect", callers[t].server, callers[t].tool, t, "established")
        /\ UNCHANGED <<storeVars, store2, apiVars, thrVars, polVars, execVars, healthVars, initVars, singletonVars>>

\* a call_tool that tries the connection again after a failure
ConnectFailedRetries ==
    \E t \in Callers :
        /\ callers[t].pc = "connecting"
        /\ pool[callers[t].server].retry_count < MaxRetries
        /\ pool' = [pool EXCEPT ![callers[t].server].is_connected = FALSE,
                                ![callers[t].server].retry_count = @ + 1]
        /\ callers' = callers
        /\ hostLast' = HostStep("connect", callers[t].server, callers[t].tool, t, "ConnectFailed")
        /\ UNCHANGED <<storeVars, store2, apiVars, thrVars, polVars, execVars, healthVars, initVars, singletonVars>>

\* an except branch that forgets the retry counter
ConnectFailedUncounted ==
    \E t \in Callers :
        /\ callers[t].pc = "connecting"
        /\ pool' = [pool EXCEPT ![callers[t].server].is_connected = FALSE]
        /\ callers' = [callers EXCEPT ![t] = IdleCaller]
        /\ hostLast' = HostStep("connect", callers[t].server, callers[t].tool, t, "ConnectFailed")
        /\ UNCHANGED <<storeVars, store2, apiVars, thrVars, polVars, execVars, healthVars, initVars, singletonVars>>

\* mcp_host.py:182-189, then 278-279: connect returns False and call_tool raises
ConnectFailed ==
    \E t \in Callers :
        /\ callers[t].pc = "connecting"
        /\ pool[callers[t].server].retry_count < MaxRetries
        /\ pool' = [pool EXCEPT ![callers[t].server].is_connected = FALSE,
                                ![callers[t].server].retry_count = @ + 1]
        /\ callers' = [callers EXCEPT ![t] = IdleCaller]
        /\ hostLast' = HostStep("connect", callers[t].server, callers[t].tool, t, "ConnectFailed")
        /\ UNCHANGED <<storeVars, store2, apiVars, thrVars, polVars, execVars, healthVars, initVars, singletonVars>>

\* mcp_host.py:180: `return True` leaves both `async with` blocks, whose exits
\* close the session and the transport under every call still using it;
\* call_tool then goes on at 281
ConnectReturns ==
    \E t \in Callers :
        LET closed == [u \in Callers |->
                          IF callers[u].pc = "invoking" /\ callers[u].via = t
                          THEN [callers[u] EXCEPT !.open = FALSE] ELSE callers[u]]
            c == callers[t]
        IN
        /\ c.pc = "exiting"
        /\ IF ~ToolKnown(pool[c.server].tools, c.tool)
           THEN /\ callers' = [closed EXCEPT ![t] = IdleCaller]
                /\ hostLast' = HostStep("call_tool", c.server, c.tool, t, "UnknownTool")
           ELSE IF pool[c.server].session = NoSession
           THEN /\ callers' = [closed EXCEPT ![t] = IdleCaller]
                /\ hostLast' = HostStep("call_tool", c.server, c.tool, t, "ToolExecutionFailed")
           ELSE /\ callers' = [closed EXCEPT ![t] =
                                  [c EXCEPT !.pc = "invoking",
                                            !.overdue = FALSE,
                                            !.via = pool[c.server].session,
                                            !.open = pool[c.server].session # t
                                                     /\ SessionOpen(pool, c.server)]]
                /\ hostLast' = HostStep("invoke", c.server, c.tool, t, "sent")
        /\ UNCHANGED <<storeVars, store2, apiVars, thrVars, polVars, execVars, pool, healthVars, initVars, singletonVars>>

\* mcp_host.py:291-297: a call on a session whose contexts have been exited fails
InvokeReturns ==
    \E t \in Callers, out \in {"ok", "ToolExecutionFailed"} :
        /\ callers[t].pc = "invoking"
        /\ out = "ok" => callers[t].open
        /\ callers' = [callers EXCEPT ![t] = IdleCaller]
        /\ hostLast' = HostStep("call_tool", callers[t].server, callers[t].tool, t, out)
        /\ UNCHANGED <<storeVars, store2, apiVars, thrVars, polVars, execVars, pool, healthVars, initVars, singletonVars>>

Quiet == \A t \in Callers : callers[t].pc = "idle"

\* pool membership, with one call_tool at a time
NextPool ==
    \/ AddConnection
    \/ Disconnect
    \/ Quiet /\ CallTool
    \/ ConnectEstablished
    \/ ConnectFailed
    \/ ConnectReturns
    \/ InvokeReturns

SpecPool == Init /\ [][NextPool]_vars

\* the pool once add_connection has registered the server the executor calls
Registered(names) == [n \in names |-> MCPConnection]

InitHost ==
    /\ InitCommon /\ executorOk = TRUE /\ query = << >> /\ agent = ConstructedAgent
    /\ pool = Registered({"neo4j"})
    /\ order = <<"neo4j">>

\* concurrent call_tool tasks on the registered servers
NextHost ==
    \/ Disconnect
    \/ CallTool
    \/ ConnectEstablished
    \/ ConnectFailed
    \/ ConnectReturns
    \/ InvokeReturns

SpecHost == InitHost /\ [][NextHost]_vars

\* a task is waiting for the server inside connect (session.initialize,
\* session.list_tools) or inside session.call_tool
Waiting(t) == callers[t].pc \in {"connecting", "invoking"}

\* MCPServerConfig.timeout seconds pass without an answer from the server:
\* no await in connect or call_tool is wrapped in a timeout, so the waiting
\* tasks are left as they are, their wait now longer than the timeout
TimeoutElapses ==
    /\ \E t \in Callers : Waiting(t) /\ ~callers[t].overdue
    /\ callers' = [t \in Callers |->
                      IF Waiting(t) THEN [callers[t] EXCEPT !.overdue = TRUE]
                      ELSE callers[t]]
    /\ UNCHANGED <<storeVars, store2, apiVars, thrVars, polVars, execVars, pool, hostLast, healthVars, initVars, singletonVars>>

\* call_tool tasks on a server that may answer late or never
NextHang ==
    \/ CallTool
    \/ ConnectEstablished
    \/ ConnectFailed
    \/ ConnectReturns
    \/ InvokeReturns
    \/ TimeoutElapses

SpecHang == InitHost /\ [][NextHang]_vars

(* ------------------ MCPConnectionPool.health_check ------------------- *)
\* mcp_host.py:308-321: the loop over self.connections.items(), run up to its
\* next await or to the return. The iterator of a dict raises RuntimeError
\* ("dictionary changed size during iteration") at the next item once a
\* connection has been added since the loop began; the `for` is outside the
\* try of the loop body.
RECURSIVE Iterate(_, _, _)
Iterate(h, ord, p) ==
    IF Len(ord) # h.size THEN [h EXCEPT !.pc = "done", !.raised = "RuntimeError"]
    ELSE IF h.idx >= Len(ord) THEN [h EXCEPT !.pc = "done"]
    ELSE LET name == ord[h.idx + 1] IN
         IF ~p[name].is_connected
         THEN [h EXCEPT !.pc = "connecting", !.idx = @ + 1]
         ELSE Iterate([h EXCEPT !.idx = @ + 1,
                                !.result = [n \in DOMAIN @ \cup {name} |->
                                               IF n = name THEN TRUE ELSE @[n]]],
                      ord, p)

\* mcp_host.py:314-317 after connect has returned: health[name] = conn.is_connected
Recorded(h, name, p) ==
    [h EXCEPT !.result = [n \in DOMAIN @ \cup {name} |->
                             IF n = name THEN p[name].is_connected ELSE @[n]]]

\* health_check() up to its first await
HealthCheck ==
    /\ health.pc \in {"idle", "done"}
    /\ health' = Iterate([IdleHealth EXCEPT !.size = Len(order)], order, pool)
    /\ hostLast' = HostStep("health_check", None, None, 0, "started")
    /\ UNCHANGED <<storeVars, store2, apiVars, thrVars, polVars, execVars, pool, callers, order, initVars, singletonVars>>

\* connect (162-173) succeeds for the server the loop is at
HealthConnectEstablished ==
    \E tools \in ToolLists :
        /\ health.pc = "connecting"
        /\ pool' = [pool EXCEPT ![order[health.idx]] =
                       [session |-> HealthSession, tools |-> tools, is_connected |-> TRUE,
                        retry_count |-> 0]]
        /\ health' = [health EXCEPT !.pc = "exiting"]
        /\ hostLast' = HostStep("connect", order[health.idx], None, 0, "established")
        /\ UNCHANGED <<storeVars, store2, apiVars, thrVars, polVars, execVars, callers, order, initVars, singletonVars>>

\* connect returns True through the exits of its `async with` blocks; the
\* loop records the connection's flag and goes on
HealthConnectReturns ==
    /\ health.pc = "exiting"
    /\ health' = Iterate(Recorded(health, order[health.idx], pool), order, pool)
    /\ hostLast' = HostStep("health_check", order[health.idx], None, 0, "True")
    /\ UNCHANGED <<storeVars, store2, apiVars, thrVars, polVars, execVars, pool, callers, order, initVars, singletonVars>>

\* connect fails (182-189) and returns False; the loop records the flag and goes on
HealthConnectFailed ==
    LET name == order[health.idx]
        failed == [pool EXCEPT ![name].is_connected = FALSE, ![name].retry_count = @ + 1]
    IN
    /\ health.pc = "connecting"
    /\ pool[name].retry_count < MaxRetries
    /\ pool' = failed
    /\ health' = Iterate(Recorded(health, name, failed), order, failed)
    /\ hostLast' = HostStep("health_check", name, None, 0, "False")
    /\ UNCHANGED <<storeVars, store2, apiVars, thrVars, polVars, execVars, callers, order, initVars, singletonVars>>

\* servers are registered and disconnected while health checks run
NextHealth ==
    \/ AddConnection
    \/ Disconnect
    \/ HealthCheck
    \/ HealthConnectEstablished
    \/ HealthConnectReturns
    \/ HealthConnectFailed

SpecHealth == Init /\ [][NextHealth]_vars

(* ----------------------- get_mcp_host, MCPHost ----------------------- *)
\* the configured servers, as many as the pool bound admits
Configs == SubSeq(<<"neo4j", "basex", "bsdd">>, 1, MaxPoolSize)

\* mcp_host.py:352-356: the add_connection calls of initialize; none of them
\* suspends, the pool's lock being free
RECURSIVE RegisterAll(_, _)
RegisterAll(p, cfgs) ==
    IF cfgs = << >> THEN p
    ELSE RegisterAll(add_connection(p, Head(cfgs)).pool, Tail(cfgs))

\* get_mcp_host() up to its first suspension: the first call creates the
\* global host, registers the servers and starts the health check of
\* initialize; a call that finds the global set returns it as it is
GetHost ==
    \E t \in Callers :
        /\ getters[t].pc = "idle"
        /\ \A u \in Callers : u < t => getters[u].pc # "idle"
        /\ IF ~mcp_host.exists
           THEN /\ mcp_host' = [exists |-> TRUE, initialized |-> FALSE]
                /\ pool' = RegisterAll(pool, Configs)
                /\ order' = Configs
                /\ health' = Iterate([IdleHealth EXCEPT !.size = Len(Configs)], Configs,
                                     RegisterAll(pool, Configs))
                /\ getters' = [getters EXCEPT ![t].pc = "initializing"]
                /\ hostLast' = HostStep("get_mcp_host", None, None, t, "initializing")
           ELSE /\ getters' = [getters EXCEPT ![t] = [pc |-> "has_host",
                                                      ready |-> mcp_host.initialized]]
                /\ hostLast' = HostStep("get_mcp_host", None, None, t, "returned")
                /\ UNCHANGED <<mcp_host, pool, order, health>>
        /\ UNCHANGED <<storeVars, store2, apiVars, thrVars, polVars, execVars, callers,
                       singletonVars>>

\* mcp_host.py:359-366, 492: the health check is over, _initialized is set
\* and get_mcp_host returns; an exception of health_check leaves the global
\* host set and not initialized
InitializeDone ==
    \E t \in Callers :
        /\ getters[t].pc = "initializing"
        /\ health.pc = "done"
        /\ IF health.raised = None
           THEN /\ mcp_host' = [mcp_host EXCEPT !.initialized = TRUE]
                /\ getters' = [getters EXCEPT ![t] = [pc |-> "has_host", ready |-> TRUE]]
                /\ hostLast' = HostStep("get_mcp_host", None, None, t, "returned")
           ELSE /\ mcp_host' = mcp_host
                /\ getters' = [getters EXCEPT ![t].pc = "raised"]
                /\ hostLast' = HostStep("get_mcp_host", None, None, t, health.raised)
        /\ UNCHANGED <<storeVars, store2, apiVars, thrVars, polVars, execVars, pool, callers,
                       order, health, singletonVars>>

\* mcp_host.py:411-414: execute_tool on the host the task was given; the call
\* it forwards to the pool is the subject of SpecHost
ExecuteTool ==
    \E t \in Callers, tool_name \in ToolNames :
        /\ getters[t].pc = "has_host"
        /\ getters' = [getters EXCEPT ![t].pc = "done"]
        /\ hostLast' = HostStep("execute_tool", "neo4j", tool_name, t,
                                IF mcp_host.initialized THEN "forwarded" ELSE "NotInitialized")
        /\ UNCHANGED <<storeVars, store2, apiVars, thrVars, polVars, execVars, pool, callers,
                       healthVars, mcp_host, singletonVars>>

close_allKeepsSessions(p) ==
    [n \in DOMAIN p |-> [p[n] EXCEPT !.is_connected = FALSE]]

\* mcp_host.py:325-328 with disconnect (201-215), which does not suspend
close_all(p) ==
    [n \in DOMAIN p |-> [p[n] EXCEPT !.session = NoSession, !.is_connected = FALSE]]

\* MCPHost.shutdown
Shutdown ==
    /\ mcp_host.exists
    /\ pool' = close_all(pool)
    /\ mcp_host' = [mcp_host EXCEPT !.initialized = FALSE]
    /\ hostLast' = HostStep("shutdown", None, None, 0,
                            IF pool = close_all(pool) THEN "nothing_to_close" ELSE "closed")
    /\ UNCHANGED <<storeVars, store2, apiVars, thrVars, polVars, execVars, callers, healthVars,
                   getters, singletonVars>>

NextInit ==
    \/ GetHost
    \/ HealthConnectEstablished
    \/ HealthConnectReturns
    \/ HealthConnectFailed
    \/ InitializeDone
    \/ ExecuteTool
    \/ Shutdown

SpecInit == Init /\ [][NextInit]_vars

(* -------------------- get_pending_action_store ------------------------ *)
\* store.py:194: a request thread reads the function attribute; it returns
\* the store it finds there, and goes on to construct one when it finds None
ReadInstance ==
    \E t \in Threads :
        /\ users[t].pc = "idle"
        /\ \A u \in Threads : u < t => users[u].pc # "idle"
        /\ users' = [users EXCEPT ![t] = IF instance = 0
                                         THEN [pc |-> "constructing", store |-> 0]
                                         ELSE [pc |-> "returned", store |-> instance]]
        /\ UNCHANGED <<storeVars, store2, apiVars, thrVars, polVars, execVars, hostVars,
                       healthVars, initVars, instance, stores>>

\* store.py:196-198: PendingActionStore(persistence_path=...) loads the file
ConstructStore ==
    \E t \in Threads :
        /\ users[t].pc = "constructing"
        /\ stores' = Append(stores, load_from_disk(disk, TRUE))
        /\ users' = [users EXCEPT ![t] = [pc |-> "constructed", store |-> Len(stores) + 1]]
        /\ UNCHANGED <<storeVars, store2, apiVars, thrVars, polVars, execVars, hostVars,
                       healthVars, initVars, instance>>

\* store.py:199-200: setattr, whatever the attribute holds by now, and return
PublishInstance ==
    \E t \in Threads :
        /\ users[t].pc = "constructed"
        /\ instance' = users[t].store
        /\ users' = [users EXCEPT ![t].pc = "returned"]
        /\ UNCHANGED <<storeVars, store2, apiVars, thrVars, polVars, execVars, hostVars,
                       healthVars, initVars, stores>>

\* the caller queues a record in the store it was given: create on that
\* object's _items, and the rewrite of the whole file from them
UseStore ==
    \E t \in Threads, p \in Plans :
        LET r == create(stores[users[t].store], disk, now, nextId, p, Attribution, diskOk) IN
        /\ users[t].pc = "returned"
        /\ nextId <= MaxIds
        /\ r.now <= MaxClock
        /\ stores' = [stores EXCEPT ![users[t].store] = r.items]
        /\ disk' = r.disk
        /\ now' = r.now
        /\ nextId' = nextId + 1
        /\ UNCHANGED <<items, diskOk, last, lastSave, store2, apiVars, thrVars, polVars,
                       execVars, hostVars, healthVars, initVars, instance, users>>

NextSingleton ==
    \/ ReadInstance
    \/ ConstructStore
    \/ PublishInstance
    \/ UseStore

SpecSingleton == Init /\ [][NextSingleton]_vars

(* ======================= claims about the store ======================= *)
Called(op) == last.op = op /\ last.id \in DOMAIN items

\* C3: approve(id) succeeds exactly from pending or approved; from rejected,
\* executed or failed it raises InvalidTransition and changes neither the
\* table (status, approved_by, approved_at, updated_at) nor the file.
ThmC3_ApproveGuard ==
    [][(last'.op = "approve" /\ last'.id \in DOMAIN items) =>
         LET s == items[last'.id].status IN
         /\ (last'.outcome = "ok") <=> (s \in {"pending", "approved"})
         /\ s \in {"rejected", "executed", "failed"} =>
               /\ last'.outcome = "InvalidTransition"
               /\ items' = items
               /\ disk' = disk]_vars

WitC3_ApproveRefused ==
    /\ Called("approve")
    /\ last.pre \in {"rejected", "executed", "failed"}
    /\ last.outcome = "InvalidTransition"
    /\ items[last.id].approved_at = NoTime

\* C4: reject(id) succeeds exactly from pending or rejected; from approved,
\* executed or failed it raises InvalidTransition and changes neither the
\* table nor the file. A reject of a pending record with reason r leaves it
\* rejected with rejection_reason r, and every approve of a rejected record
\* raises InvalidTransition.
ThmC4_RejectGuard ==
    [][/\ (last'.op = "reject" /\ last'.id \in DOMAIN items) =>
            LET s == items[last'.id].status IN
            /\ (last'.outcome = "ok") <=> (s \in {"pending", "rejected"})
            /\ s \in {"approved", "executed", "failed"} =>
                  /\ last'.outcome = "InvalidTransition"
                  /\ items' = items
                  /\ disk' = disk
            /\ s = "pending" =>
                  /\ items'[last'.id].status = "rejected"
                  /\ items'[last'.id].rejection_reason = last'.arg
       /\ \A i \in DOMAIN items :
            items[i].status \in {"rejected", "executed", "failed"} =>
               /\ items'[i].status \in {"rejected", "executed", "failed"}
               /\ (last'.op = "approve" /\ last'.id = i) =>
                     last'.outcome = "InvalidTransition"]_vars

WitC4_ApproveAfterReject ==
    /\ Called("approve")
    /\ last.pre = "rejected"
    /\ last.outcome = "InvalidTransition"
    /\ items[last.id].rejection_reason = "not needed"

\* C5: mark_executed(id) and mark_failed(id) succeed only from approved; from
\* pending, rejected, executed or failed they fail, so executed and failed
\* are reached only through approved and are terminal.
CexC5_MarkOnlyFromApproved ==
    (last.op \in {"mark_executed", "mark_failed"} /\ last.id \in DOMAIN items) =>
        ((last.outcome = "ok") <=> (last.pre = "approved"))

\* C9: an approve of a record that is pending or already approved succeeds
\* and leaves it approved, so any number of approvals of a pending record
\* all succeed and the record stays approved.
ThmC9_IdempotentApprove ==
    [][(last'.op = "approve" /\ last'.id \in DOMAIN items
          /\ items[last'.id].status \in {"pending", "approved"}) =>
         /\ last'.outcome = "ok"
         /\ items'[last'.id].status = "approved"
         /\ items'[last'.id].approved_at = now]_vars

WitC9_ApprovedTwice ==
    /\ Called("approve")
    /\ last.pre = "approved"
    /\ last.outcome = "ok"
    /\ items[last.id].status = "approved"
    /\ items[last.id].approved_at > items[last.id].created_at + 1

\* C18: mark_executed sets executed_at and execution_result and clears
\* execution_error; mark_failed sets executed_at and execution_error and
\* clears execution_result; so an executed record has no execution_error and
\* a failed record has no execution_result.
CexC18_OppositeFieldCleared ==
    \A i \in DOMAIN items :
        /\ items[i].status = "executed" => items[i].execution_error = None
        /\ items[i].status = "failed" => items[i].execution_result = None

\* C20: for an id that is not in the store, approve, reject, mark_executed
\* and mark_failed raise NotFound and leave the table and the file as they
\* were (no record is created), and get returns no record.
ThmC20_UnknownId ==
    [][(last'.op \in {"approve", "reject", "mark_executed", "mark_failed"}
          /\ last'.id \notin DOMAIN items) =>
         /\ last'.outcome = "NotFound"
         /\ items' = items
         /\ disk' = disk
         /\ get(items, last'.id) = None
         /\ get(items', last'.id) = None]_vars

WitC20_MarkFailedUnknown ==
    /\ last.op = "mark_failed"
    /\ last.outcome = "NotFound"
    /\ last.id \notin DOMAIN items
    /\ DOMAIN items # {}
    /\ disk.kind = "list"

(* ================= claims about the approval endpoints ================ *)
\* C1: every call of Executor.execute for a pending action follows a
\* successful store.approve of the same id, and once a reject of an action
\* has succeeded the executor is never called for it and it never becomes
\* executed.
ThmC1_HumanInTheLoop ==
    /\ [](\A i \in Ids : hist[i].executor > 0 => hist[i].approved > 0)
    /\ [][\A i \in Ids :
            /\ hist'[i].executor > hist[i].executor => hist'[i].approved > hist[i].approved
            /\ hist[i].rejected > 0 =>
                 /\ hist'[i].executor = hist[i].executor
                 /\ items'[i].status # "executed"]_vars

WitC1_RejectedThenRefused ==
    \E t, u \in Tasks :
        /\ tasks[t].kind = "reject" /\ tasks[t].code = 200
        /\ tasks[u].kind = "approve" /\ tasks[u].id = tasks[t].id
        /\ tasks[u].execute /\ tasks[u].code = 409
        /\ hist[tasks[t].id].executor = 0
        /\ executorOk

\* C6: under every interleaving of concurrent approve requests with
\* execute=true, the executor is called at most once per id and the record
\* is marked executed/failed at most once.
CexC6_AtMostOnce ==
    \A i \in Ids : hist[i].executor <= 1 /\ hist[i].marked <= 1

Executing(t) ==
    /\ tasks[t].pc = "done" /\ tasks[t].kind = "approve" /\ tasks[t].execute
    /\ tasks[t].code \notin {404, 409}

\* C12 as stated: every approve request with execute=true that passes the
\* transition check ends with the record executed (response 200) or failed
\* (response 500); the record is never left approved once the request has
\* completed.
CexC12_NeverLeftApproved ==
    \A t \in Tasks : Executing(t) =>
        /\ tasks[t].code \in {200, 500}
        /\ items[tasks[t].id].status \in {"executed", "failed"}

\* C12 amended: when the executor is available the request ends with the
\* record executed (200, execution_result set, the executor returned) or
\* failed (500, the executor raised) and the record is not left approved;
\* when it is not available the request ends 503 with the record approved.
ThmC12_ExecutedOrFailed ==
    /\ [](\A t \in Tasks : Executing(t) =>
             IF executorOk
             THEN /\ tasks[t].code \in {200, 500}
                  /\ items[tasks[t].id].status \in {"executed", "failed"}
             ELSE /\ tasks[t].code = 503
                  /\ items[tasks[t].id].status = "approved")
    /\ [][\A t \in Tasks : (tasks[t].pc = "executing" /\ tasks'[t].pc = "done") =>
            LET a == items'[tasks[t].id] IN
            \/ /\ tasks'[t].code = 200
               /\ last'.op = "mark_executed"
               /\ a.status = "executed"
               /\ a.execution_result # None
               /\ a.execution_result = last'.arg
            \/ /\ tasks'[t].code = 500
               /\ last'.op = "mark_failed"
               /\ a.status = "failed"
               /\ a.execution_error # None]_vars

WitC12_FailedWith500 ==
    \E t \in Tasks :
        /\ Executing(t)
        /\ executorOk
        /\ tasks[t].code = 500
        /\ last.op = "mark_failed" /\ last.id = tasks[t].id
        /\ items[tasks[t].id].status = "failed"

(* ================== claims about concurrent store calls =============== *)
Raced(t, u) ==
    /\ thr[t].pc = "done" /\ thr[u].pc = "done"
    /\ thr[t].op = "approve" /\ thr[u].op = "reject"
    /\ thr[t].id = thr[u].id
    /\ thr[t].outcome # "NotFound" /\ thr[u].outcome # "NotFound"

\* C7: the status check and the status write of approve / reject are one
\* critical section: of an approve and a reject of the same pending record,
\* whatever the interleaving, exactly one succeeds, the other raises
\* InvalidTransition, the final status is the winner's, and no record ever
\* carries both an approval and a rejection.
ThmC7_Linearized ==
    /\ \A t, u \in Threads : Raced(t, u) =>
          \/ /\ thr[t].outcome = "ok" /\ thr[u].outcome = "InvalidTransition"
             /\ items[thr[t].id].status = "approved"
          \/ /\ thr[u].outcome = "ok" /\ thr[t].outcome = "InvalidTransition"
             /\ items[thr[t].id].status = "rejected"
    /\ \A i \in DOMAIN items :
          /\ ~(items[i].approved_at # NoTime /\ items[i].rejected_at # NoTime)
          /\ ~(hist[i].approved > 0 /\ hist[i].rejected > 0)

WitC7_LoserWaited ==
    \E t, u \in Threads :
        /\ Raced(t, u)
        /\ \/ thr[t].outcome = "ok" /\ thr[u].blockedBy = t
           \/ thr[u].outcome = "ok" /\ thr[t].blockedBy = u

(* ================= claims about the confirmation policy =============== *)
\* C2: every plan with action_type delete has requires_confirmation true,
\* whatever the bulk estimate (none, small, large, 999).
ThmC2_DeleteAlwaysGated ==
    plan.action_type = "delete" => plan.requires_confirmation

WitC2_DeleteSmallEstimate ==
    /\ plan.action_type = "delete"
    /\ plan.bulk_estimate = 5
    /\ plan.requires_confirmation

\* C8: a plan with action_type update_properties has requires_confirmation
\* true exactly when its bulk estimate exists and is greater than 5.
ThmC8_BulkThreshold ==
    plan.action_type = "update_properties" =>
        (plan.requires_confirmation <=>
            (plan.bulk_estimate # NoEstimate /\ plan.bulk_estimate > 5))

WitC8_SixGates ==
    /\ plan.action_type = "update_properties"
    /\ plan.bulk_estimate = 6
    /\ plan.requires_confirmation

(* ===================== claims about persistence ======================= *)
StatusView(its) == [i \in DOMAIN its |-> its[i].status]

\* C10 as stated: after any sequence of successful store mutations, a new
\* store constructed from the same file holds the same ids with the same
\* statuses as the original store.
CexC10_RoundTrip ==
    last.op = "new_store" => StatusView(store2.items) = StatusView(items)

\* C10 amended: the round trip holds when the original store's most recent
\* disk write succeeded and the new store could read the file.
ThmC10_RoundTripWhenWritten ==
    (last.op = "new_store" /\ last.outcome = "ok" /\ lastSave # "OSError") =>
        StatusView(store2.items) = StatusView(items)

WitC10_Reloaded ==
    /\ last.op = "new_store"
    /\ last.outcome = "ok"
    /\ lastSave = "ok"
    /\ Cardinality(DOMAIN store2.items) >= 2
    /\ \E i \in DOMAIN store2.items : store2.items[i].status # "pending"

(* ==================== claims about the executor ======================= *)
Degraded(ex) ==
    \/ ex.host = "absent"
    \/ ex.outcome \in {"ConnectFailed", "UnknownTool", "ToolExecutionFailed"}

\* C11: whenever the host is absent, fails connect, reports an unknown tool
\* or fails the tool call, execute raises nothing and returns exactly one
\* record, with status "success", note "fallback_result_no_mcp" and the
\* plan's action_type, tool and parameters.
ThmC11_DegradesGracefully ==
    (execution.pc = "done" /\ Degraded(execution)) =>
        /\ execution.raised = None
        /\ Len(execution.ret) = 1
        /\ execution.ret[1].status = "success"
        /\ execution.ret[1].note = "fallback_result_no_mcp"
        /\ execution.ret[1].action_type = execution.plan.action_type
        /\ execution.ret[1].tool = execution.plan.tool
        /\ execution.ret[1].parameters = execution.plan.parameters

WitC11_UnknownToolFallsBack ==
    /\ execution.pc = "done"
    /\ execution.outcome = "UnknownTool"
    /\ Len(execution.invocations) = 1
    /\ execution.raised = None
    /\ execution.ret = <<FallbackRecord(execution.plan)>>

\* C16: for every plan, whatever its action_type and tool, executed with a
\* reachable host, execute makes exactly one call_tool invocation, whose
\* tool name is the plan's tool.
CexC16_OneCallPerPlan ==
    (execution.pc = "done" /\ execution.host = "present") =>
        /\ Len(execution.invocations) = 1
        /\ execution.invocations[1].tool_name = execution.plan.tool

\* C17 as stated: each call of execute emits exactly one audit record, on
\* the normal path and on the fallback path alike, carrying the user_id and
\* session_id of the call's metadata.
CexC17_OneAuditRecord ==
    /\ Len(events) = executions
    /\ execution.pc = "done" =>
          /\ execution.audited = 1
          /\ events[Len(events)].user_id = execution.metadata.user_id
          /\ events[Len(events)].session_id = execution.metadata.session_id

\* C17 amended: an executor constructed with an audit logger emits exactly
\* one audit record per call, on both paths, carrying the metadata's user_id
\* and session_id; one constructed without it emits none.
ThmC17_OneAuditRecordWhenLogging ==
    IF agent.audit_logger
    THEN /\ Len(events) = executions
         /\ execution.pc = "done" =>
               /\ execution.audited = 1
               /\ execution.raised = None
               /\ events[Len(events)].user_id = execution.metadata.user_id
               /\ events[Len(events)].session_id = execution.metadata.session_id
    ELSE events = << >> /\ execution.audited = 0

WitC17_BothPathsAudited ==
    /\ agent.audit_logger
    /\ execution.pc = "done"
    /\ execution.outcome \in Envelopes
    /\ execution.metadata.user_id = "u1"
    /\ Len(events) = 2
    /\ events[2].user_id = "u1" /\ events[2].session_id = "s1"
    /\ events[1].action = "store_document"

(* ================= claims about the connection pool =================== *)
\* the step in which task t reaches the tool check of call_tool with the
\* connection ensured: on entry with the server connected, or when its own
\* connect has returned True
Ensured(t) ==
    \/ /\ callers[t].pc = "idle"
       /\ hostLast'.task = t
       /\ hostLast'.op \in {"call_tool", "invoke"}
       /\ hostLast'.server \in DOMAIN pool
       /\ pool[hostLast'.server].is_connected
    \/ callers[t].pc = "exiting" /\ callers'[t].pc # "exiting"

\* C13: call_tool never invokes a tool that was not discovered: when the
\* name is not in the connection's tool list after the connection is
\* ensured, call_tool raises UnknownTool and sends nothing to the session;
\* every invocation sent carries a tool name in that list.
ThmC13_OnlyDiscoveredTools ==
    [][\A t \in Callers :
          /\ Ensured(t) =>
                IF hostLast'.tool \in pool[hostLast'.server].tools
                THEN hostLast'.outcome \in {"sent", "ToolExecutionFailed"}
                ELSE /\ hostLast'.outcome = "UnknownTool"
                     /\ callers'[t].pc = "idle"
          /\ (callers[t].pc # "invoking" /\ callers'[t].pc = "invoking") =>
                /\ hostLast'.op = "invoke" /\ hostLast'.task = t
                /\ callers'[t].tool = hostLast'.tool
                /\ callers'[t].tool \in pool'[callers'[t].server].tools]_vars

WitC13_UnknownToolRefused ==
    /\ hostLast.op = "call_tool"
    /\ hostLast.outcome = "UnknownTool"
    /\ hostLast.server \in DOMAIN pool
    /\ pool[hostLast.server].is_connected
    /\ pool[hostLast.server].tools # {}
    /\ hostLast.tool \notin pool[hostLast.server].tools

Connecting(name) == {t \in Callers : callers[t].pc = "connecting" /\ callers[t].server = name}

\* C14: when several call_tool calls target the same server while it is not
\* connected, at most one connection establishment for that server is in
\* flight at any time.
CexC14_NoRacingConnects ==
    \A name \in DOMAIN pool : Cardinality(Connecting(name)) <= 1

\* C15: a connection with is_connected = true holds a session that is open
\* (its transport and session contexts have not been exited).
CexC15_ConnectedSessionLive ==
    \A name \in DOMAIN pool : pool[name].is_connected => SessionOpen(pool, name)

\* C19: add_connection returns False and changes nothing when the pool
\* already holds max_pool_size connections or one of that name; otherwise it
\* registers the server unconnected and without a session, attempting no
\* connection; the pool never holds more than max_pool_size connections.
ThmC19_AddConnection ==
    /\ [](Cardinality(DOMAIN pool) <= MaxPoolSize)
    /\ [][hostLast'.op = "add_connection" =>
            LET name == hostLast'.server IN
            IF Cardinality(DOMAIN pool) >= MaxPoolSize \/ name \in DOMAIN pool
            THEN /\ hostLast'.outcome = "False"
                 /\ pool' = pool
                 /\ callers' = callers
            ELSE /\ hostLast'.outcome = "True"
                 /\ DOMAIN pool' = DOMAIN pool \cup {name}
                 /\ \A n \in DOMAIN pool : pool'[n] = pool[n]
                 /\ ~pool'[name].is_connected
                 /\ pool'[name].session = NoSession
                 /\ callers' = callers]_vars

WitC19_DuplicateRefused ==
    /\ hostLast.op = "add_connection"
    /\ hostLast.outcome = "False"
    /\ hostLast.server \in DOMAIN pool
    /\ Cardinality(DOMAIN pool) < MaxPoolSize
    /\ pool[hostLast.server].is_connected

\* C21: the approve and reject endpoints answer 404 for an unknown id and 409
\* for a transition the store refuses, and in both cases the executor is not
\* invoked, no audit record is written and neither the table nor the file
\* changes.
ThmC21_RefusalsChangeNothing ==
    [][\A t \in Tasks :
          (tasks[t].pc = "idle" /\ tasks'[t].pc # "idle") =>
             LET id == tasks'[t].id
                 status == StatusOf(items, id)
                 invalid == IF tasks'[t].kind = "approve"
                            THEN status \in {"rejected", "executed", "failed"}
                            ELSE status \in {"approved", "executed", "failed"}
             IN /\ (tasks'[t].code = 404) <=> (id \notin DOMAIN items)
                /\ (tasks'[t].code = 409) <=> invalid
                /\ tasks'[t].code \in {404, 409} =>
                      /\ tasks'[t].pc = "done"
                      /\ hist' = hist
                      /\ audit' = audit
                      /\ items' = items
                      /\ disk' = disk]_vars

WitC21_ApproveOfRejectedRefused ==
    \E t \in Tasks :
        /\ tasks[t].pc = "done"
        /\ tasks[t].kind = "approve"
        /\ tasks[t].code = 409
        /\ tasks[t].id \in DOMAIN items
        /\ items[tasks[t].id].status = "rejected"
        /\ items[tasks[t].id].approved_by = None
        /\ audit["pending_action_approved"] = 0
        /\ hist[tasks[t].id].executor = 0

\* C22: in every state reached through store operations no record has both
\* approval metadata (approved_at, approved_by) and rejection metadata
\* (rejected_at, rejected_by, rejection_reason) populated.
ThmC22_OneReviewPair ==
    \A i \in DOMAIN items :
        ~(/\ items[i].approved_at # NoTime \/ items[i].approved_by # None
          /\ \/ items[i].rejected_at # NoTime
             \/ items[i].rejected_by # None
             \/ items[i].rejection_reason # None)

WitC22_RejectOfApprovedRefused ==
    /\ last.op = "reject"
    /\ last.outcome = "InvalidTransition"
    /\ last.id \in DOMAIN items
    /\ items[last.id].approved_at # NoTime
    /\ items[last.id].approved_by = "admin"
    /\ items[last.id].rejected_at = NoTime
    /\ last.arg = "not needed"

\* C23: every record in status rejected has a non-null rejection_reason and
\* every record in status failed has a non-null execution_error, whatever
\* optional fields the reject and approve requests carried.
CexC23_ReasonAlwaysCarried ==
    \A i \in DOMAIN items :
        /\ items[i].status = "rejected" => items[i].rejection_reason # None
        /\ items[i].status = "failed" => items[i].execution_error # None

\* C25: when the latest successful mutation found the disk working, the file
\* holds the whole in-memory table: one entry per id, each equal to the
\* record in memory.
ThmC25_WriteThrough ==
    lastSave = "ok" =>
        /\ disk.kind = "list"
        /\ Len(disk.payload) = Cardinality(DOMAIN items)
        /\ \A i \in DOMAIN items : \E k \in 1..Len(disk.payload) : disk.payload[k] = items[i]

WitC25_TwoRecordsOnDisk ==
    /\ lastSave = "ok"
    /\ last.op \in {"approve", "reject", "mark_executed", "mark_failed"}
    /\ last.outcome = "ok"
    /\ Cardinality(DOMAIN items) = 2
    /\ \E i \in DOMAIN items : i # last.id

\* C26: constructing a store on an absent, blank, unparsable or wrongly
\* shaped persistence file (or one that cannot be read) raises nothing and
\* yields an empty store; create then succeeds on it and the record can be
\* approved, rejected and marked as on any other store.
ThmC26_FailOpenLoad ==
    /\ [](last.op = "construct" =>
            /\ last.outcome = "ok"
            /\ last.arg \notin {"list", "items_object"} => items = EmptyTable)
    /\ [][last'.op = "create" =>
            /\ last'.outcome = "ok"
            /\ DOMAIN items' = DOMAIN items \cup {last'.id}
            /\ items'[last'.id].status = "pending"
            /\ disk' = [kind |-> "list", payload |-> Dump(items')]]_vars
    /\ [][last'.op \in {"approve", "reject", "mark_executed", "mark_failed"} =>
            (last'.outcome = "NotFound") <=> (last'.id \notin DOMAIN items)]_vars

WitC26_CreateAfterBadFile ==
    /\ disk.kind = "list"
    /\ last.op = "approve"
    /\ last.outcome = "ok"
    /\ Cardinality(DOMAIN items) = 2
    /\ \A i \in DOMAIN items : items[i].created_at # NoTime

CexC29_FailedCallCounted ==
    [][(hostLast'.op = "call_tool" /\ hostLast'.outcome = "ToolExecutionFailed") =>
          pool'[hostLast'.server].retry_count = pool[hostLast'.server].retry_count + 1]_vars

\* C28: no connect and no call_tool is still waiting for its server once the
\* server's configured timeout has elapsed: by then the call has returned,
\* failing.
CexC28_NoWaitBeyondTimeout ==
    \A t \in Callers : Waiting(t) => ~callers[t].overdue

\* C24: in one ActionAgent.process request, a plan with requires_confirmation
\* true leads to exactly one PendingAction, created pending, and to no call
\* of the executor; a plan with requires_confirmation false leads to exactly
\* one call of the executor and to no PendingAction.
ThmC24_GateEitherQueuesOrExecutes ==
    plan # NoPlan =>
        IF plan.requires_confirmation
        THEN /\ execution.pc = "idle"
             /\ executions = 0
             /\ proc.pc = "done" =>
                   /\ DOMAIN items = {proc.pending_id}
                   /\ items[proc.pending_id].status = "pending"
                   /\ items[proc.pending_id].action_plan = plan
        ELSE /\ items = EmptyTable
             /\ proc.pending_id = 0
             /\ executions <= 1
             /\ proc.pc = "executing" => execution.plan = plan
             /\ proc.pc = "done" =>
                   /\ executions = 1
                   /\ execution.plan = plan
                   /\ Len(execution.invocations) <= 1

WitC24_DeleteQueued ==
    /\ proc.pc = "done"
    /\ proc.next = "END"
    /\ plan.tool = "delete_nodes"
    /\ plan.requires_confirmation
    /\ proc.pending_id \in DOMAIN items
    /\ items[proc.pending_id].status = "pending"
    /\ execution.pc = "idle"
    /\ proc.logged = <<"pending_action_created">>

\* C30: health_check never raises, whatever happens to the servers and the
\* pool while it runs.
CexC30_HealthCheckNeverRaises ==
    health.raised = None

\* C32: a plan whose action type is neither delete nor update_properties is
\* never gated, whatever the bulk estimate; a create_node plan with an
\* estimate above 10 carries exactly one "Large create detected" warning
\* naming the estimate and is not gated, and no other plan carries a warning.
ThmC32_OnlyDeleteAndBulkUpdateGate ==
    plan # NoPlan =>
        /\ plan.action_type \notin {"delete", "update_properties"} =>
              ~plan.requires_confirmation
        /\ IF plan.action_type = "create_node" /\ plan.bulk_estimate # NoEstimate
              /\ plan.bulk_estimate > 10
           THEN plan.warnings = <<[warning |-> "Large create detected",
                                   estimated |-> plan.bulk_estimate]>>
           ELSE plan.warnings = << >>

WitC32_LargeCreateWarned ==
    /\ plan.action_type = "create_node"
    /\ plan.bulk_estimate = 11
    /\ Len(plan.warnings) = 1
    /\ ~plan.requires_confirmation

\* C33: POST approve with execute = false on a pending or approved record
\* answers 200 with status "approved", leaves the record approved, does not
\* call the executor and leaves executed_at, execution_result and
\* execution_error as they were.
ThmC33_ApproveOnlyFrame ==
    [][\A t \in Tasks :
          (/\ tasks[t].pc = "idle" /\ tasks'[t].pc # "idle"
           /\ tasks'[t].kind = "approve" /\ ~tasks'[t].execute
           /\ StatusOf(items, tasks'[t].id) \in {"pending", "approved"}) =>
             LET id == tasks'[t].id IN
             /\ tasks'[t].pc = "done"
             /\ tasks'[t].code = 200
             /\ tasks'[t].body = "approved"
             /\ items'[id].status = "approved"
             /\ hist'[id].executor = hist[id].executor
             /\ hist'[id].marked = hist[id].marked
             /\ items'[id].executed_at = items[id].executed_at
             /\ items'[id].execution_result = items[id].execution_result
             /\ items'[id].execution_error = items[id].execution_error]_vars

WitC33_ApprovedWithoutExecution ==
    \E t \in Tasks :
        /\ tasks[t].pc = "done"
        /\ tasks[t].kind = "approve"
        /\ ~tasks[t].execute
        /\ tasks[t].body = "approved"
        /\ last.op = "approve" /\ last.id = tasks[t].id /\ last.pre = "approved"
        /\ items[tasks[t].id].status = "approved"
        /\ items[tasks[t].id].executed_at = NoTime
        /\ hist[tasks[t].id].executor = 0

\* C35: a mutation made while the disk refuses writes ends exactly as it
\* would on a working disk (same outcome, same table in memory, same clock)
\* and only the file stays behind; so do the operations that follow it.
ThmC35_WriteFailureNonFatal ==
    [][(~diskOk /\ last'.op \in {"create", "approve", "reject", "mark_executed", "mark_failed"}) =>
          LET id == last'.id
              arg == last'.arg
              written ==
                  CASE last'.op = "create" -> {create(items, disk, now, id, arg, Attribution, TRUE)}
                    [] last'.op = "approve" -> {approve(items, disk, now, id, arg, TRUE)}
                    [] last'.op = "reject" ->
                          {reject(items, disk, now, id, by, arg, TRUE) : by \in Reviewers}
                    [] last'.op = "mark_executed" ->
                          {mark_executed(items, disk, now, id, arg, TRUE)}
                    [] last'.op = "mark_failed" ->
                          {mark_failed(items, disk, now, id, arg, TRUE)}
          IN /\ disk' = disk
             /\ \E r \in written : /\ last'.outcome = r.outcome
                                   /\ items' = r.items
                                   /\ now' = r.now]_vars

WitC35_ApprovedInMemoryOnly ==
    /\ ~diskOk
    /\ lastSave = "OSError"
    /\ disk = NoFile
    /\ last.op = "approve"
    /\ last.outcome = "ok"
    /\ last.pre = "pending"
    /\ items[last.id].status = "approved"

\* C36: approve, reject, mark_executed and mark_failed on an id change no
\* other record and leave the id, created_at, action_plan, user_id,
\* session_id and thread_id of that record as create set them; create
\* changes no record that existed before.
ThmC36_MutationFrame ==
    [][last'.op \in {"create", "approve", "reject", "mark_executed", "mark_failed"} =>
          /\ DOMAIN items \subseteq DOMAIN items'
          /\ \A i \in DOMAIN items :
                /\ i # last'.id => items'[i] = items[i]
                /\ last'.op = "create" => items'[i] = items[i]
                /\ items'[i].id = items[i].id
                /\ items'[i].created_at = items[i].created_at
                /\ items'[i].action_plan = items[i].action_plan
                /\ items'[i].user_id = items[i].user_id
                /\ items'[i].session_id = items[i].session_id
                /\ items'[i].thread_id = items[i].thread_id
          /\ \A i \in DOMAIN items' :
                /\ items'[i].id = i
                /\ i \notin DOMAIN items =>
                      /\ last'.op = "create"
                      /\ items'[i].user_id = "u1"]_vars

WitC36_SecondRecordUntouched ==
    /\ last.op = "mark_failed"
    /\ last.outcome = "ok"
    /\ items[last.id].user_id = "u1"
    /\ items[last.id].thread_id = "t1"
    /\ \E i \in DOMAIN items : i # last.id /\ items[i].status = "pending"

StringKeyed(e) == "json_number" \notin DOMAIN e

\* C34: for every shape of result the host returns, execute returns without
\* raising a list whose elements are all string-keyed records; a shape that
\* is not recognized gives the single record with status "unknown".
CexC34_AlwaysListOfRecords ==
    (execution.pc = "done" /\ execution.outcome \in Envelopes) =>
        /\ execution.raised = None
        /\ \A k \in 1..Len(execution.ret) : StringKeyed(execution.ret[k])
        /\ execution.outcome \in {"content_not_json", "no_content", "raw_list"} =>
              execution.ret = <<[status |-> "unknown", raw |-> execution.outcome]>>

\* C31: right after shutdown every registered connection has is_connected
\* false and no session, and the host is not initialized; a shutdown of a
\* host whose connections are all closed already raises nothing and changes
\* no connection.
ThmC31_ShutdownClosesAll ==
    [][hostLast'.op = "shutdown" =>
          /\ DOMAIN pool' = DOMAIN pool
          /\ \A n \in DOMAIN pool' :
                /\ ~pool'[n].is_connected
                /\ pool'[n].session = NoSession
                /\ pool'[n].tools = pool[n].tools
                /\ pool'[n].retry_count = pool[n].retry_count
          /\ ~mcp_host'.initialized
          /\ (\A n \in DOMAIN pool : ~pool[n].is_connected /\ pool[n].session = NoSession) =>
                pool' = pool]_vars

WitC31_ShutdownTwice ==
    /\ hostLast.op = "shutdown"
    /\ hostLast.outcome = "nothing_to_close"
    /\ \E n \in DOMAIN pool : pool[n].tools # {}
    /\ \A n \in DOMAIN pool : ~pool[n].is_connected /\ pool[n].session = NoSession

\* C39: every task to which get_mcp_host has returned the host got it with
\* initialize completed (_initialized true).
CexC39_ReturnedHostInitialized ==
    \A t \in Callers : getters[t].pc \in {"has_host", "done"} => getters[t].ready

\* C38: a POST approve with execute=true whose host is absent or raises
\* (not initialized, unknown server, connect failed, unknown tool, tool
\* execution failed) ends with status executed, response 200 and the single
\* fallback record as execution_result; a request ends with status failed
\* only when execute itself has raised.
ThmC38_HostFailureStillExecuted ==
    [][\A t \in Tasks :
          (tasks[t].pc = "awaiting" /\ tasks'[t].pc = "done") =>
             LET id == tasks[t].id IN
             /\ (execution.outcome \in DOMAIN HostRaises \/ execution.host = "absent") =>
                   /\ items'[id].status = "executed"
                   /\ items'[id].execution_result = <<FallbackRecord(items[id].action_plan)>>
                   /\ items'[id].execution_error = None
                   /\ tasks'[t].code = 200
             /\ items'[id].status = "failed" => execution.raised # None
             /\ items'[id].status \in {"executed", "failed"}]_vars

WitC38_ConnectFailedYetExecuted ==
    \E t \in Tasks :
        /\ tasks[t].pc = "done"
        /\ tasks[t].code = 200
        /\ execution.pc = "done"
        /\ execution.outcome = "ConnectFailed"
        /\ last.op = "mark_executed"
        /\ last.id = tasks[t].id
        /\ items[tasks[t].id].status = "executed"
        /\ items[tasks[t].id].execution_result[1].note = "fallback_result_no_mcp"

\* C40: under every interleaving of first calls of get_pending_action_store
\* at most one PendingActionStore is constructed, every caller is given that
\* one, and every record queued through a returned store is in the file.
CexC40_SingleInstance ==
    /\ Len(stores) <= 1
    /\ \A t \in Threads : users[t].pc = "returned" => users[t].store = instance
    /\ \A i \in 1..(nextId - 1) : i \in DOMAIN load_from_disk(disk, TRUE)

====
